---- MODULE Spec2Model ----
(***************************************************************************)
(* Order payment reconciliation of the yadujewels storefront:              *)
(*   - verify-payment route      (src/app/api/pincode/route.ts 72-292)     *)
(*   - Razorpay webhook route    (src/app/api/pincode/route.ts 294-619)    *)
(*   - order status route        (src/app/api/orders/cod/route.ts 187-280) *)
(*   - stock management helper   (next.config.mjs 107-252)                 *)
(*   - admin pages and hooks     (src/app/admin/orders/page.tsx,           *)
(*                                src/app/admin/products/page.tsx,         *)
(*                                src/lib/validations.ts 526-860)          *)
(* Every awaited database call of a handler is one step of the model, so   *)
(* that concurrent requests interleave exactly at the awaits.              *)
(***************************************************************************)
EXTENDS Integers, Sequences, FiniteSets, TLC

\* ------------------------------------------------------------------ bounds
MaxStock == 5
MaxQty == 2
MaxReq == 3
MaxConc == 2
MaxDeliveries == 2
MaxCalls == 2
MaxOrders == 2
MaxRacers == 3

\* ------------------------------------------------------------- vocabulary
Products == {"p1"}
OrderIds == {"o1", "o2"}
Users == {"u1", "u2"}
NoUser == "anonymous"
NoOrder == "no_order"
NoValue == "null"

RAZORPAY_KEY_SECRET == "key_secret"
RAZORPAY_WEBHOOK_SECRET == "webhook_secret"

Max(a, b) == IF a > b THEN a ELSE b

VARIABLES
  products,      \* products table: product id -> [stock_quantity, in_stock]
  orders,        \* orders table: order id -> row
  order_items,   \* order_items table: order id -> sequence of [product_id, quantity]
  req,           \* the requests: slot -> handler position and locals
  initial_stock, \* stock_quantity of every product before any request ran
  admin_orders   \* the orders query of each open admin page: the list it
                 \* shows and the refetch in flight

vars == <<products, orders, order_items, req, initial_stock, admin_orders>>


\* --------------------------------------------------------------- signatures
\* crypto.createHmac("sha256", secret).update(message).digest("hex"): a value
\* that is determined by, and determines, the pair (secret, message).
Hmac(secret, message) == <<"sha256", secret, message>>

\* `${razorpay_order_id}|${razorpay_payment_id}`
PaymentMessage(razorpay_order_id, razorpay_payment_id) ==
  <<razorpay_order_id, "|", razorpay_payment_id>>

expectedSignature(razorpay_order_id, razorpay_payment_id) ==
  Hmac(RAZORPAY_KEY_SECRET, PaymentMessage(razorpay_order_id, razorpay_payment_id))

\* The raw webhook body, the JSON text of {event, payload.payment.entity}.
RawBody(event, razorpay_order_id, razorpay_payment_id, method) ==
  <<event, razorpay_order_id, razorpay_payment_id, method>>

\* A request body that is not JSON text.
MalformedBody == <<"{not json">>

\* JSON.parse(rawBody) returns a value (it throws on text that is not JSON).
Parses(rawBody) == Len(rawBody) = 4

\* JSON.parse(rawBody): the fields the handlers read.
ParseBody(rawBody) ==
  [event |-> rawBody[1], order_id |-> rawBody[2], id |-> rawBody[3], method |-> rawBody[4]]

NoSignature == <<>>

\* Mutant of verifyWebhookSignature: every signature is accepted.
verifyWebhookSignature_AcceptsAny(payload, signature, secret) == TRUE

\* timingSafeEqual(expectedSignature, signature), false when the lengths differ.
verifyWebhookSignature(payload, signature, secret) ==
  Hmac(secret, payload) = signature

\* ------------------------------------------------------------------ tables
RazorpayOrderId(o) == IF o = "o1" THEN "order_1" ELSE "order_2"
Owner(o) == IF o = "o1" THEN "u1" ELSE "u2"
RazorpayOrderIds == {RazorpayOrderId(o) : o \in OrderIds}
PaymentIds == {"pay_1"}

\* The row the create-order route inserts.
NewOrder(user_id, razorpay_order_id) ==
  [ user_id             |-> user_id,
    razorpay_order_id   |-> razorpay_order_id,
    razorpay_payment_id |-> NoValue,
    razorpay_signature  |-> NoSignature,
    payment_status      |-> "pending",
    status              |-> "pending",
    payment_method      |-> "razorpay",
    payment_metadata    |-> NoValue,
    tracking_number     |-> NoValue ]

\* .from("orders").select(...).eq("razorpay_order_id", id).single()
OrderByRazorpayId(razorpay_order_id) ==
  IF \E o \in DOMAIN orders : orders[o].razorpay_order_id = razorpay_order_id
  THEN CHOOSE o \in DOMAIN orders : orders[o].razorpay_order_id = razorpay_order_id
  ELSE NoOrder

\* .from("order_items").select("product_id, quantity").eq("order_id", id)
ItemsOf(order_id) == IF order_id \in DOMAIN order_items THEN order_items[order_id] ELSE <<>>

\* The browsers in which the admin's orders page is open, each with its own
\* query cache.
AdminPages == {"a1"}

\* useOrders: what the select of the order list returns of every order.
ListedOrders ==
  [o \in DOMAIN orders |->
     [status |-> orders[o].status, payment_status |-> orders[o].payment_status,
      tracking_number |-> orders[o].tracking_number]]

\* The orders query of a page that has fetched its list and is at rest.
MountedPage == [data |-> ListedOrders, fetching |-> "idle", fetched |-> ListedOrders]

\* queryClient.invalidateQueries({ queryKey: ["orders"] }) on page a: the
\* mounted query starts a refetch (one in flight is cancelled and restarted).
invalidateQueries(a) ==
  IF a = NoValue THEN admin_orders
  ELSE [admin_orders EXCEPT ![a].fetching = "orders",
                            ![a].fetched = admin_orders[a].data]

\* ---------------------------------------------------------------- requests
IdleReq ==
  [ kind |-> "none", pc |-> "idle",
    user |-> NoValue, order_id |-> NoValue,
    razorpay_order_id |-> NoValue, razorpay_payment_id |-> NoValue,
    signature |-> NoSignature, rawBody |-> NoValue,
    event |-> NoValue, method |-> NoValue,
    newStatus |-> NoValue, previousStatus |-> NoValue,
    payment_status |-> NoValue, tracking_number |-> NoValue,
    product_id |-> NoValue, page |-> NoValue,
    data |-> [stock_quantity |-> 0],
    on_delete |-> NoValue, column_default |-> "unused",
    retries |-> 0, success |-> FALSE,
    cart |-> <<>>, total_amount |-> 0, shipping_address |-> NoValue,
    order |-> NoOrder, items |-> <<>>, idx |-> 0, currentStock |-> 0,
    updatedProducts |-> <<>>, errors |-> <<>>,
    http |-> 0, message |-> "" ]

Slots == DOMAIN req
InFlight(r) == req[r].pc \notin {"idle", "done"}
Quiescent == \A r \in Slots : ~InFlight(r)
\* Slots are taken in order.
Free(r) == req[r].pc = "idle" /\ (IF r = 1 THEN TRUE ELSE req[r - 1].pc # "idle")

\* The answer to a request.  The answer to a call a hook of a page made is
\* on its way to the browser, where the mutation has yet to settle.
Reply(rq, code, msg) ==
  [rq EXCEPT !.pc = IF rq.page = NoValue THEN "done" ELSE "response",
             !.http = code, !.message = msg]

\* ------------------------------------------------------- verify-payment route
\* Mutant of VerifyGate: the idempotency check on paid is missing.
VerifyGate_NoIdempotency(user, order_id, razorpay_order_id, razorpay_payment_id, razorpay_signature) ==
  IF user = NoUser THEN "unauthorized"
  ELSE IF NoValue \in {razorpay_order_id, razorpay_payment_id, order_id}
          \/ razorpay_signature = NoSignature THEN "missing"
  ELSE IF order_id \notin DOMAIN orders THEN "not_found"
  ELSE IF orders[order_id].user_id # user THEN "forbidden"
  ELSE IF orders[order_id].razorpay_order_id # razorpay_order_id THEN "mismatch"
  ELSE IF expectedSignature(razorpay_order_id, razorpay_payment_id) # razorpay_signature
       THEN "invalid_signature"
  ELSE "valid_signature"

\* Mutant of VerifyGate: only a pending order is verified; any other payment
\* status is answered as already verified.
VerifyGate_OnlyFromPending(user, order_id, razorpay_order_id, razorpay_payment_id, razorpay_signature) ==
  IF user = NoUser THEN "unauthorized"
  ELSE IF NoValue \in {razorpay_order_id, razorpay_payment_id, order_id}
          \/ razorpay_signature = NoSignature THEN "missing"
  ELSE IF order_id \notin DOMAIN orders THEN "not_found"
  ELSE IF orders[order_id].user_id # user THEN "forbidden"
  ELSE IF orders[order_id].razorpay_order_id # razorpay_order_id THEN "mismatch"
  ELSE IF orders[order_id].payment_status # "pending" THEN "already_paid"
  ELSE IF expectedSignature(razorpay_order_id, razorpay_payment_id) # razorpay_signature
       THEN "invalid_signature"
  ELSE "valid_signature"

\* Mutant of VerifyGate: the intent id is compared before the owner.
VerifyGate_MismatchBeforeOwner(user, order_id, razorpay_order_id, razorpay_payment_id, razorpay_signature) ==
  IF user = NoUser THEN "unauthorized"
  ELSE IF NoValue \in {razorpay_order_id, razorpay_payment_id, order_id}
          \/ razorpay_signature = NoSignature THEN "missing"
  ELSE IF order_id \notin DOMAIN orders THEN "not_found"
  ELSE IF orders[order_id].razorpay_order_id # razorpay_order_id THEN "mismatch"
  ELSE IF orders[order_id].user_id # user THEN "forbidden"
  ELSE IF orders[order_id].payment_status = "paid" THEN "already_paid"
  ELSE IF expectedSignature(razorpay_order_id, razorpay_payment_id) # razorpay_signature
       THEN "invalid_signature"
  ELSE "valid_signature"

\* The gates of the verify-payment handler, in the order of the code, decided
\* on the row read by the select: the name of the first gate that answers,
\* or which write follows.
VerifyGate(user, order_id, razorpay_order_id, razorpay_payment_id, razorpay_signature) ==
  IF user = NoUser THEN "unauthorized"
  ELSE IF NoValue \in {razorpay_order_id, razorpay_payment_id, order_id}
          \/ razorpay_signature = NoSignature THEN "missing"
  ELSE IF order_id \notin DOMAIN orders THEN "not_found"
  ELSE IF orders[order_id].user_id # user THEN "forbidden"
  ELSE IF orders[order_id].razorpay_order_id # razorpay_order_id THEN "mismatch"
  ELSE IF orders[order_id].payment_status = "paid" THEN "already_paid"
  ELSE IF expectedSignature(razorpay_order_id, razorpay_payment_id) # razorpay_signature
       THEN "invalid_signature"
  ELSE "valid_signature"

\* .update({payment_status: "failed", payment_metadata: {verification_failed ...}})
VerifyFailedUpdate(row) ==
  [row EXCEPT !.payment_status = "failed", !.payment_metadata = "verification_failed"]

\* Mutant of VerifyPaidUpdate: the payment id is stored in the intent id column.
VerifyPaidUpdate_OverwritesIntent(row, razorpay_payment_id, razorpay_signature) ==
  [row EXCEPT !.razorpay_order_id = razorpay_payment_id,
              !.razorpay_signature = razorpay_signature,
              !.payment_status = "paid",
              !.status = "processing",
              !.payment_metadata = "signature"]

\* Mutant of VerifyPaidUpdate: the fulfilment status is not moved on.
VerifyPaidUpdate_KeepsStatus(row, razorpay_payment_id, razorpay_signature) ==
  [row EXCEPT !.razorpay_payment_id = razorpay_payment_id,
              !.razorpay_signature = razorpay_signature,
              !.payment_status = "paid",
              !.payment_metadata = "signature"]

\* .update({razorpay_payment_id, razorpay_signature, payment_status: "paid",
\*          status: "processing", payment_metadata: {verification_method ...}})
VerifyPaidUpdate(row, razorpay_payment_id, razorpay_signature) ==
  [row EXCEPT !.razorpay_payment_id = razorpay_payment_id,
              !.razorpay_signature = razorpay_signature,
              !.payment_status = "paid",
              !.status = "processing",
              !.payment_metadata = "signature"]

\* A request arrives at the verify-payment route: session, body, the select
\* of the order, the gates, the idempotency check and the signature check.
VerifyPayment(r, user, order_id, razorpay_order_id, razorpay_payment_id, razorpay_signature) ==
  /\ Free(r)
  /\ LET rq == [IdleReq EXCEPT !.kind = "verify", !.user = user, !.order_id = order_id,
                               !.razorpay_order_id = razorpay_order_id,
                               !.razorpay_payment_id = razorpay_payment_id,
                               !.signature = razorpay_signature]
         gate == VerifyGate(user, order_id, razorpay_order_id, razorpay_payment_id,
                            razorpay_signature)
     IN req' = [req EXCEPT ![r] =
          CASE gate = "unauthorized" -> Reply(rq, 401, "Unauthorized")
            [] gate = "missing" -> Reply(rq, 400, "Missing required payment details")
            [] gate = "not_found" -> Reply(rq, 404, "Order not found")
            [] gate = "forbidden" -> Reply(rq, 403, "Unauthorized access to order")
            [] gate = "mismatch" -> Reply(rq, 400, "Order ID mismatch")
            [] gate = "already_paid" -> Reply(rq, 200, "Payment already verified")
            [] gate = "invalid_signature" ->
                 [rq EXCEPT !.pc = "verify_failed", !.order = order_id]
            [] OTHER -> [rq EXCEPT !.pc = "verify_paid", !.order = order_id]]
  /\ UNCHANGED <<products, orders, order_items, initial_stock, admin_orders>>

\* The update after a signature mismatch, and the 400 answer.
VerifyMarkFailed(r) ==
  /\ req[r].pc = "verify_failed"
  /\ orders' = [orders EXCEPT ![req[r].order] = VerifyFailedUpdate(@)]
  /\ req' = [req EXCEPT ![r] = Reply(@, 400, "Payment verification failed")]
  /\ UNCHANGED <<products, order_items, initial_stock, admin_orders>>

\* The update after a signature mismatch returns an error, which the handler
\* does not look at: 400, nothing written.
VerifyMarkFailedFails(r) ==
  /\ req[r].pc = "verify_failed"
  /\ req' = [req EXCEPT ![r] = Reply(@, 400, "Payment verification failed")]
  /\ UNCHANGED <<products, orders, order_items, initial_stock, admin_orders>>

\* The update after a signature match.
VerifyMarkPaid(r) ==
  /\ req[r].pc = "verify_paid"
  /\ orders' = [orders EXCEPT ![req[r].order] =
                  VerifyPaidUpdate(@, req[r].razorpay_payment_id, req[r].signature)]
  /\ req' = [req EXCEPT ![r].pc = "fetch_items"]
  /\ UNCHANGED <<products, order_items, initial_stock, admin_orders>>

\* Mutant of VerifyUpdateFailed: the error of the update is not looked at.
VerifyUpdateFailed_Continues(rq) == [rq EXCEPT !.pc = "fetch_items"]

\* if (updateError) return 500
VerifyUpdateFailed(rq) == Reply(rq, 500, "Failed to update order status")

\* The update after a signature match returns an error.
VerifyMarkPaidFails(r) ==
  /\ req[r].pc = "verify_paid"
  /\ req' = [req EXCEPT ![r] = VerifyUpdateFailed(@)]
  /\ UNCHANGED <<products, orders, order_items, initial_stock, admin_orders>>

\* Mutant of AfterStock: a stock error fails the verify-payment call.
AfterStock_FailsOnErrors(rq) ==
  CASE rq.kind = "verify" ->
         IF rq.errors # <<>> THEN Reply(rq, 500, "Internal server error")
         ELSE Reply(rq, 200, "Payment verified successfully")
    [] rq.kind = "webhook" -> Reply(rq, 200, "received")
    [] rq.kind = "cod" -> Reply(rq, 200, "Order placed successfully! Pay on delivery.")
    [] OTHER -> [rq EXCEPT !.pc = "status_write"]

\* What a handler does when its stock loop has ended (or had nothing to do).
AfterStock(rq) ==
  CASE rq.kind = "verify" -> Reply(rq, 200, "Payment verified successfully")
    [] rq.kind = "webhook" -> Reply(rq, 200, "received")
    [] rq.kind = "cod" -> Reply(rq, 200, "Order placed successfully! Pay on delivery.")
    [] OTHER -> [rq EXCEPT !.pc = "status_write"]

\* The select of the order's items after the paid update (verify-payment and
\* handlePaymentCaptured alike); decrementStock starts when there are items.
FetchOrderItems(r) ==
  /\ req[r].pc = "fetch_items"
  /\ LET items == ItemsOf(req[r].order)
     IN req' = [req EXCEPT ![r] =
          IF Len(items) > 0
          THEN [@ EXCEPT !.pc = "decrement_read", !.items = items, !.idx = 1]
          ELSE AfterStock(@)]
  /\ UNCHANGED <<products, orders, order_items, initial_stock, admin_orders>>

\* The select of the order's items returns an error (itemsError): it is
\* logged and decrementStock is not called.
FetchOrderItemsFails(r) ==
  /\ req[r].pc = "fetch_items"
  /\ req' = [req EXCEPT ![r] = AfterStock(@)]
  /\ UNCHANGED <<products, orders, order_items, initial_stock, admin_orders>>

\* ------------------------------------------------------------ stock helper
\* const newStock = Math.max(0, currentStock - item.quantity)
DecrementedStock(currentStock, quantity) == Max(0, currentStock - quantity)

\* const isInStock = newStock > 0
IsInStock(newStock) == newStock > 0

\* Mutant of RestoredStock: the quantity replaces the stock instead of being added.
RestoredStock_Overwrites(currentStock, quantity) == quantity

\* const newStock = currentStock + item.quantity
RestoredStock(currentStock, quantity) == currentStock + quantity

\* The end of one pass of the for loop: the next item, or the return of
\* {success: errors.length === 0, errors, updatedProducts} to the handler.
NextItem(rq, read_pc) ==
  IF rq.idx < Len(rq.items)
  THEN [rq EXCEPT !.idx = @ + 1, !.pc = read_pc]
  ELSE AfterStock([rq EXCEPT !.success = (rq.errors = <<>>)])

\* Mutant of ItemFailed: the loop ends at the first item that fails.
ItemFailed_Stops(rq, product_id, read_pc) ==
  AfterStock([rq EXCEPT !.errors = Append(@, product_id)])

\* errors.push(...); continue: the failure of one item is recorded (here by
\* the product id its message names) and the loop goes on with the next item.
ItemFailed(rq, product_id, read_pc) ==
  NextItem([rq EXCEPT !.errors = Append(@, product_id)], read_pc)

\* decrementStock: the select of the item's product.
DecrementRead(r) ==
  /\ req[r].pc = "decrement_read"
  /\ LET item == req[r].items[req[r].idx]
     IN req' = [req EXCEPT ![r] =
          IF item.product_id \notin DOMAIN products
          THEN ItemFailed(@, item.product_id, "decrement_read")
          ELSE [@ EXCEPT !.currentStock = products[item.product_id].stock_quantity,
                         !.pc = "decrement_write"]]
  /\ UNCHANGED <<products, orders, order_items, initial_stock, admin_orders>>

\* decrementStock: the update of the item's product from the value read (an
\* update that matches no row, the product having been deleted since the
\* select, is no error).
DecrementWrite(r) ==
  /\ req[r].pc = "decrement_write"
  /\ LET item == req[r].items[req[r].idx]
         newStock == DecrementedStock(req[r].currentStock, item.quantity)
     IN /\ products' = IF item.product_id \in DOMAIN products
                        THEN [products EXCEPT ![item.product_id] =
                                [stock_quantity |-> newStock,
                                 in_stock |-> IsInStock(newStock)]]
                        ELSE products
        /\ req' = [req EXCEPT ![r] =
             NextItem([@ EXCEPT !.updatedProducts = Append(@, item.product_id)],
                      "decrement_read")]
  /\ UNCHANGED <<orders, order_items, initial_stock, admin_orders>>

\* decrementStock: the update of the item's product returns an error.
DecrementWriteFails(r) ==
  /\ req[r].pc = "decrement_write"
  /\ req' = [req EXCEPT ![r] =
       ItemFailed(@, req[r].items[req[r].idx].product_id, "decrement_read")]
  /\ UNCHANGED <<products, orders, order_items, initial_stock, admin_orders>>

\* restoreStock: the select of the item's product.
RestoreRead(r) ==
  /\ req[r].pc = "restore_read"
  /\ LET item == req[r].items[req[r].idx]
     IN req' = [req EXCEPT ![r] =
          IF item.product_id \notin DOMAIN products
          THEN ItemFailed(@, item.product_id, "restore_read")
          ELSE [@ EXCEPT !.currentStock = products[item.product_id].stock_quantity,
                         !.pc = "restore_write"]]
  /\ UNCHANGED <<products, orders, order_items, initial_stock, admin_orders>>

\* restoreStock: the update of the item's product; in_stock is set true (an
\* update that matches no row is no error).
RestoreWrite(r) ==
  /\ req[r].pc = "restore_write"
  /\ LET item == req[r].items[req[r].idx]
         newStock == RestoredStock(req[r].currentStock, item.quantity)
     IN /\ products' = IF item.product_id \in DOMAIN products
                        THEN [products EXCEPT ![item.product_id] =
                                [stock_quantity |-> newStock, in_stock |-> TRUE]]
                        ELSE products
        /\ req' = [req EXCEPT ![r] =
             NextItem([@ EXCEPT !.updatedProducts = Append(@, item.product_id)],
                      "restore_read")]
  /\ UNCHANGED <<orders, order_items, initial_stock, admin_orders>>

\* restoreStock: the update of the item's product returns an error.
RestoreWriteFails(r) ==
  /\ req[r].pc = "restore_write"
  /\ req' = [req EXCEPT ![r] =
       ItemFailed(@, req[r].items[req[r].idx].product_id, "restore_read")]
  /\ UNCHANGED <<products, orders, order_items, initial_stock, admin_orders>>

\* ------------------------------------------------------------ webhook route
WebhookEvents == {"payment.captured", "order.paid", "payment.failed", "payment.authorized"}

\* payment_method: payment.method || "razorpay"
CapturedMethod(method) == IF method = "" THEN "razorpay" ELSE method

\* Mutant of CapturedGate: the idempotency check on paid is missing.
CapturedGate_NoIdempotency(order) ==
  IF order = NoOrder THEN "not_found" ELSE "update"

\* handlePaymentCaptured after its select: skip, or update.
CapturedGate(order) ==
  IF order = NoOrder THEN "not_found"
  ELSE IF orders[order].payment_status = "paid" THEN "already_paid"
  ELSE "update"

\* Mutant of FailedGate: the guard against downgrading paid is missing.
FailedGate_NoPaidGuard(order) ==
  IF order = NoOrder THEN "not_found" ELSE "update"

\* handlePaymentFailed after its select: skip, or update.
FailedGate(order) ==
  IF order = NoOrder THEN "not_found"
  ELSE IF orders[order].payment_status = "paid" THEN "already_paid"
  ELSE "update"

\* .update({razorpay_payment_id, payment_status: "paid", status: "processing",
\*          payment_method, payment_metadata: {captured_via: "webhook" ...}})
CapturedUpdate(row, razorpay_payment_id, method) ==
  [row EXCEPT !.razorpay_payment_id = razorpay_payment_id,
              !.payment_status = "paid",
              !.status = "processing",
              !.payment_method = CapturedMethod(method),
              !.payment_metadata = "captured_via_webhook"]

\* .update({payment_status: "failed", payment_metadata: {failed_via: "webhook" ...}})
FailedUpdate(row) ==
  [row EXCEPT !.payment_status = "failed", !.payment_metadata = "failed_via_webhook"]

\* The catch block of the webhook route: { received: true, error }, status 200.
CatchReply(rq) == Reply(rq, 200, "Processing error")

\* A delivery arrives at the webhook route: the signature check, the parse,
\* the dispatch on the event and the handler's select of the order.
Webhook(r, rawBody, signature) ==
  /\ Free(r)
  /\ LET payload == IF Parses(rawBody) THEN ParseBody(rawBody)
                    ELSE [event |-> NoValue, order_id |-> NoValue,
                          id |-> NoValue, method |-> NoValue]
         rq == [IdleReq EXCEPT !.kind = "webhook", !.rawBody = rawBody,
                               !.event = payload.event,
                               !.razorpay_order_id = payload.order_id,
                               !.razorpay_payment_id = payload.id,
                               !.method = payload.method,
                               !.signature = signature]
         order == OrderByRazorpayId(payload.order_id)
     IN req' = [req EXCEPT ![r] =
          IF signature = NoSignature THEN Reply(rq, 400, "Missing signature")
          ELSE IF ~verifyWebhookSignature(rawBody, signature, RAZORPAY_WEBHOOK_SECRET)
               THEN Reply(rq, 400, "Invalid signature")
          ELSE IF ~Parses(rawBody) THEN CatchReply(rq)
          ELSE IF payload.event \in {"payment.captured", "order.paid"}
               THEN IF CapturedGate(order) = "update"
                    THEN [rq EXCEPT !.pc = "captured_paid", !.order = order]
                    ELSE Reply(rq, 200, "received")
          ELSE IF payload.event = "payment.failed"
               THEN IF FailedGate(order) = "update"
                    THEN [rq EXCEPT !.pc = "failed_failed", !.order = order]
                    ELSE Reply(rq, 200, "received")
          ELSE Reply(rq, 200, "received")]
  /\ UNCHANGED <<products, orders, order_items, initial_stock, admin_orders>>

\* handlePaymentCaptured: the update to paid / processing.
CapturedMarkPaid(r) ==
  /\ req[r].pc = "captured_paid"
  /\ orders' = [orders EXCEPT ![req[r].order] =
                  CapturedUpdate(@, req[r].razorpay_payment_id, req[r].method)]
  /\ req' = [req EXCEPT ![r].pc = "fetch_items"]
  /\ UNCHANGED <<products, order_items, initial_stock, admin_orders>>

\* handlePaymentCaptured: the update returns an error; the handler returns
\* and the route acknowledges the delivery.
CapturedMarkPaidFails(r) ==
  /\ req[r].pc = "captured_paid"
  /\ req' = [req EXCEPT ![r] = Reply(@, 200, "received")]
  /\ UNCHANGED <<products, orders, order_items, initial_stock, admin_orders>>

\* handlePaymentFailed: the update to failed, and the 200 answer.
FailedMarkFailed(r) ==
  /\ req[r].pc = "failed_failed"
  /\ orders' = [orders EXCEPT ![req[r].order] = FailedUpdate(@)]
  /\ req' = [req EXCEPT ![r] = Reply(@, 200, "received")]
  /\ UNCHANGED <<products, order_items, initial_stock, admin_orders>>

\* handlePaymentFailed: the update returns an error; the handler returns and
\* the route acknowledges the delivery.
FailedMarkFailedFails(r) ==
  /\ req[r].pc = "failed_failed"
  /\ req' = [req EXCEPT ![r] = Reply(@, 200, "received")]
  /\ UNCHANGED <<products, orders, order_items, initial_stock, admin_orders>>

\* ------------------------------------------------------- order status route
OrderStatuses == {"pending", "processing", "shipped", "delivered", "cancelled"}

\* if (newStatus === "cancelled" && previousStatus !== "cancelled")
RestoresStock(newStatus, previousStatus) ==
  newStatus = "cancelled" /\ previousStatus # "cancelled"

\* The order status route up to its first database call: a body without
\* orderId or newStatus is answered 400; a cancellation selects the order's
\* items next, any other request goes on to the update of the status.
StatusRequest(rq0, orderId, newStatus, previousStatus) ==
  LET rq == [rq0 EXCEPT !.kind = "status", !.order_id = orderId,
                        !.newStatus = newStatus,
                        !.previousStatus = previousStatus,
                        !.order = orderId]
  IN IF orderId = NoValue \/ newStatus = NoValue
     THEN Reply(rq, 400, "Order ID and new status are required")
     ELSE IF RestoresStock(newStatus, previousStatus)
     THEN [rq EXCEPT !.pc = "status_fetch_items"]
     ELSE [rq EXCEPT !.pc = "status_write"]

\* mutations: { retry: 1 }: a mutation whose function throws is run once more.
MutationRetry == 1

\* A request arrives at the order status route.
UpdateOrderStatus(r, orderId, newStatus, previousStatus) ==
  /\ Free(r)
  /\ req' = [req EXCEPT ![r] = StatusRequest(IdleReq, orderId, newStatus, previousStatus)]
  /\ UNCHANGED <<products, orders, order_items, initial_stock, admin_orders>>

\* The select of the order's items; restoreStock starts when there are any.
StatusFetchItems(r) ==
  /\ req[r].pc = "status_fetch_items"
  /\ LET items == ItemsOf(req[r].order)
     IN req' = [req EXCEPT ![r] =
          IF Len(items) > 0
          THEN [@ EXCEPT !.pc = "restore_read", !.items = items, !.idx = 1]
          ELSE [@ EXCEPT !.pc = "status_write"]]
  /\ UNCHANGED <<products, orders, order_items, initial_stock, admin_orders>>

\* The select of the order's items returns an error: 500, nothing written.
StatusFetchItemsFails(r) ==
  /\ req[r].pc = "status_fetch_items"
  /\ req' = [req EXCEPT ![r] = Reply(@, 500, "Failed to fetch order items")]
  /\ UNCHANGED <<products, orders, order_items, initial_stock, admin_orders>>

\* .update({status: newStatus}).eq("id", orderId).select().single() and the
\* answer.
StatusWrite(r) ==
  /\ req[r].pc = "status_write"
  /\ IF req[r].order \in DOMAIN orders
     THEN /\ orders' = [orders EXCEPT ![req[r].order].status = req[r].newStatus]
          /\ req' = [req EXCEPT ![r] =
               Reply(@, 200, IF req[r].newStatus = "cancelled"
                             THEN "Order cancelled and stock restored"
                             ELSE "Order status updated")]
     ELSE /\ orders' = orders
          /\ req' = [req EXCEPT ![r] = Reply(@, 500, "Failed to update order status")]
  /\ UNCHANGED <<products, order_items, initial_stock, admin_orders>>

\* The update of the status returns an error: 500, nothing written.
StatusWriteFails(r) ==
  /\ req[r].pc = "status_write"
  /\ req' = [req EXCEPT ![r] = Reply(@, 500, "Failed to update order status")]
  /\ UNCHANGED <<products, orders, order_items, initial_stock, admin_orders>>

\* -------------------------------------------------------------- admin pages
\* const paymentStatusOptions = ["pending", "paid", "failed", "refunded"]
PaymentStatusOptions == {"pending", "paid", "failed", "refunded"}

\* The admin opens the orders page again: useOrders mounts, shows the list
\* the cache holds and, the list being stale, starts to fetch it again.
MountOrders(a) ==
  /\ admin_orders[a].fetching = "idle"
  /\ admin_orders' = invalidateQueries(a)
  /\ UNCHANGED <<products, orders, order_items, req, initial_stock>>

\* useOrders queryFn on page a, first await: the select of the orders.  With
\* a user id among the rows the profiles are selected next; with none the
\* function returns and the page shows the rows.
FetchOrdersSelect(a) ==
  /\ admin_orders[a].fetching = "orders"
  /\ admin_orders' =
       IF \E o \in DOMAIN orders : orders[o].user_id # NoUser
       THEN [admin_orders EXCEPT ![a].fetching = "profiles",
                                 ![a].fetched = ListedOrders]
       ELSE [admin_orders EXCEPT ![a].fetching = "idle",
                                 ![a].fetched = ListedOrders,
                                 ![a].data = ListedOrders]
  /\ UNCHANGED <<products, orders, order_items, req, initial_stock>>

\* The select of the orders returns an error: the query fails and the page
\* keeps the list it shows.
FetchOrdersFails(a) ==
  /\ admin_orders[a].fetching = "orders"
  /\ admin_orders' = [admin_orders EXCEPT ![a].fetching = "idle"]
  /\ UNCHANGED <<products, orders, order_items, req, initial_stock>>

\* useOrders queryFn on page a, second await (the select of the profiles)
\* and the return: the page shows the rows the first select returned.
FetchOrdersPublish(a) ==
  /\ admin_orders[a].fetching = "profiles"
  /\ admin_orders' = [admin_orders EXCEPT ![a].fetching = "idle",
                                           ![a].data = admin_orders[a].fetched]
  /\ UNCHANGED <<products, orders, order_items, req, initial_stock>>

\* useUpdateOrderStatus on page a: the POST to the order status route.
useUpdateOrderStatus(r, a, id, status, previousStatus) ==
  /\ Free(r)
  /\ req' = [req EXCEPT ![r] =
       StatusRequest([IdleReq EXCEPT !.page = a], id, status, previousStatus)]
  /\ UNCHANGED <<products, orders, order_items, initial_stock, admin_orders>>

\* The status select of order o on page a: it shows the status of the list
\* the page holds, its change event is an option other than the one shown,
\* and the call carries the shown status as previousStatus.
handleStatusChange(r, a, o, newStatus) ==
  /\ o \in DOMAIN admin_orders[a].data
  /\ newStatus # admin_orders[a].data[o].status
  /\ useUpdateOrderStatus(r, a, o, newStatus, admin_orders[a].data[o].status)

\* The text of the error the database client returns.
DatabaseError == "error.message"

\* The mutation function of a hook that makes one database call throws:
\* with a retry left the call is sent again after the retry delay, otherwise
\* onError shows the error's text.
MutationError(rq) ==
  IF rq.retries < MutationRetry
  THEN [rq EXCEPT !.retries = rq.retries + 1]
  ELSE [rq EXCEPT !.pc = "done", !.message = DatabaseError]

\* useUpdatePaymentStatus on page a is called: the update of payment_status
\* is sent to the database.
UpdatePaymentStatus(r, a, id, payment_status) ==
  /\ Free(r)
  /\ req' = [req EXCEPT ![r] =
       [IdleReq EXCEPT !.kind = "payment_status", !.order_id = id, !.order = id,
                       !.payment_status = payment_status, !.page = a,
                       !.pc = "order_update"]]
  /\ UNCHANGED <<products, orders, order_items, initial_stock, admin_orders>>

\* useUpdateTrackingNumber on page a is called: the update of
\* tracking_number is sent to the database.
UpdateTrackingNumber(r, a, id, tracking_number) ==
  /\ Free(r)
  /\ req' = [req EXCEPT ![r] =
       [IdleReq EXCEPT !.kind = "tracking_number", !.order_id = id, !.order = id,
                       !.tracking_number = tracking_number, !.page = a,
                       !.pc = "order_update"]]
  /\ UNCHANGED <<products, orders, order_items, initial_stock, admin_orders>>

\* .update({<column>}).eq("id", id).select().single() of either hook: the
\* row is written and returned; no row with that id is an error.
OrderColumnWrite(r) ==
  /\ req[r].pc = "order_update"
  /\ IF req[r].order \in DOMAIN orders
     THEN /\ orders' =
               IF req[r].kind = "payment_status"
               THEN [orders EXCEPT ![req[r].order].payment_status = req[r].payment_status]
               ELSE [orders EXCEPT ![req[r].order].tracking_number = req[r].tracking_number]
          /\ req' = [req EXCEPT ![r].pc = "response", ![r].http = 200]
     ELSE /\ orders' = orders
          /\ req' = [req EXCEPT ![r] = MutationError(@)]
  /\ UNCHANGED <<products, order_items, initial_stock, admin_orders>>

\* The update of either hook returns an error.
OrderColumnWriteFails(r) ==
  /\ req[r].pc = "order_update"
  /\ req' = [req EXCEPT ![r] = MutationError(@)]
  /\ UNCHANGED <<products, orders, order_items, initial_stock, admin_orders>>

\* The answer to a hook's call has reached the browser and the mutation
\* settles.  After a success onSuccess invalidates the page's orders query
\* and shows the hook's message.  An error answer makes the mutation function
\* throw (only the status route answers one): with a retry left the same
\* POST is sent again, otherwise onError shows the error.
MutationSettled(r) ==
  /\ req[r].pc = "response"
  /\ IF req[r].http = 200
     THEN /\ req' = [req EXCEPT
               ![r].pc = "done",
               ![r].message = CASE req[r].kind = "payment_status" -> "Payment status updated"
                                [] req[r].kind = "tracking_number" -> "Tracking number updated"
                                [] OTHER -> @]
          /\ admin_orders' = invalidateQueries(req[r].page)
     ELSE /\ req' = [req EXCEPT ![r] =
               IF req[r].retries < MutationRetry
               THEN StatusRequest([IdleReq EXCEPT !.page = req[r].page,
                                                  !.retries = req[r].retries + 1],
                                  req[r].order_id, req[r].newStatus,
                                  req[r].previousStatus)
               ELSE [@ EXCEPT !.pc = "done"]]
          /\ admin_orders' = admin_orders
  /\ UNCHANGED <<products, orders, order_items, initial_stock>>

\* The payment select of order o on page a.
handlePaymentStatusChange(r, a, o, newStatus) ==
  /\ o \in DOMAIN admin_orders[a].data
  /\ newStatus # admin_orders[a].data[o].payment_status
  /\ UpdatePaymentStatus(r, a, o, newStatus)

\* The tracking field of order o on page a, saved with the text typed in.
handleTrackingUpdate(r, a, o, trackingValue) ==
  /\ o \in DOMAIN admin_orders[a].data
  /\ UpdateTrackingNumber(r, a, o, trackingValue)

\* useUpdateProduct is called with {id, ...data}: the update is sent to the
\* database.
UpdateProduct(r, id, data) ==
  /\ Free(r)
  /\ req' = [req EXCEPT ![r] =
       [IdleReq EXCEPT !.kind = "product_update", !.product_id = id,
                       !.data = data, !.pc = "product_write"]]
  /\ UNCHANGED <<products, orders, order_items, initial_stock, admin_orders>>

\* useUpdateProduct: .update(data).eq("id", id).select("*").single(); data
\* holds the columns to write, the others keep their values; no row with
\* that id is an error.
UpdateProductWrite(r) ==
  /\ req[r].pc = "product_write" /\ req[r].kind = "product_update"
  /\ LET id == req[r].product_id
         data == req[r].data
     IN IF id \in DOMAIN products
        THEN /\ products' = [products EXCEPT ![id] =
                  [column \in DOMAIN products[id] \cup DOMAIN data |->
                     IF column \in DOMAIN data THEN data[column]
                     ELSE products[id][column]]]
             /\ req' = [req EXCEPT ![r].pc = "done"]
        ELSE /\ products' = products
             /\ req' = [req EXCEPT ![r] = MutationError(@)]
  /\ UNCHANGED <<orders, order_items, initial_stock, admin_orders>>

\* The database call of a product hook (update, insert or delete) returns
\* an error.
ProductWriteFails(r) ==
  /\ req[r].pc = "product_write"
  /\ req' = [req EXCEPT ![r] = MutationError(@)]
  /\ UNCHANGED <<products, orders, order_items, initial_stock, admin_orders>>

\* The id the database gives a row inserted into products by request r: one
\* no row has had.
FreshProductId(r) == "product_" \o ToString(r)

\* useCreateProduct is called with data: the insert is sent to the database.
CreateProduct(r, data) ==
  /\ Free(r)
  /\ req' = [req EXCEPT ![r] =
       [IdleReq EXCEPT !.kind = "product_create", !.data = data,
                       !.pc = "product_write"]]
  /\ UNCHANGED <<products, orders, order_items, initial_stock, admin_orders>>

\* useCreateProduct: .insert(data).select().single().  The row holds data as
\* given.  A column data does not name gets the column's default, which is
\* part of the database schema and not in the repository: in_stock, a
\* nullable boolean, is then NULL (a row without the field), true or false,
\* by a default that is one for the whole life of the database.
CreateProductWrite(r) ==
  /\ req[r].pc = "product_write" /\ req[r].kind = "product_create"
  /\ LET data == req[r].data
     IN \E default \in {"NULL", "TRUE", "FALSE"} :
          /\ \A q \in Slots : req[q].kind = "product_create"
                                => req[q].column_default \in {"unused", default}
          /\ products' = products @@
               (FreshProductId(r) :>
                  IF "in_stock" \in DOMAIN data \/ default = "NULL" THEN data
                  ELSE [stock_quantity |-> data.stock_quantity,
                        in_stock |-> (default = "TRUE")])
          /\ req' = [req EXCEPT
               ![r].pc = "done", ![r].product_id = FreshProductId(r),
               ![r].column_default = IF "in_stock" \in DOMAIN data THEN @ ELSE default,
               ![r].message = "Product created successfully"]
  /\ UNCHANGED <<orders, order_items, initial_stock, admin_orders>>

\* order_items_product_id_fkey: order_items.product_id, a nullable column,
\* references products.id.  The rule the key applies when a referenced
\* product is deleted is part of the database schema, which is not in the
\* repository: each of the rules of SQL is possible.
OnDeleteRules == {"RESTRICT", "SET NULL", "CASCADE"}

\* Some row of order_items references product id.
Referenced(id) ==
  \E o \in DOMAIN order_items :
    \E i \in 1..Len(order_items[o]) : order_items[o][i].product_id = id

\* The rows of order_items after the key has applied rule to a delete of
\* product id.
OrderItemsAfterDelete(id, rule) ==
  [o \in DOMAIN order_items |->
     IF rule = "CASCADE"
     THEN SelectSeq(order_items[o], LAMBDA item : item.product_id # id)
     ELSE [i \in 1..Len(order_items[o]) |->
             IF order_items[o][i].product_id = id
             THEN [order_items[o][i] EXCEPT !.product_id = NoValue]
             ELSE order_items[o][i]]]

\* useDeleteProduct is called with id: the delete is sent to the database.
DeleteProduct(r, id) ==
  /\ Free(r)
  /\ req' = [req EXCEPT ![r] =
       [IdleReq EXCEPT !.kind = "product_delete", !.product_id = id,
                       !.pc = "product_write"]]
  /\ UNCHANGED <<products, orders, order_items, initial_stock, admin_orders>>

\* useDeleteProduct: .delete().eq("id", id).  A product no order item
\* references is removed; for a referenced one the foreign key decides:
\* the delete is refused with an error, or the product is removed and the
\* items referencing it lose their product_id or are removed with it.  The
\* rule is one for the whole life of the database: a delete applies the rule
\* every earlier delete of a referenced product applied.
DeleteProductWrite(r) ==
  /\ req[r].pc = "product_write" /\ req[r].kind = "product_delete"
  /\ LET id == req[r].product_id
         deleted == [p \in DOMAIN products \ {id} |-> products[p]]
     IN IF ~Referenced(id)
        THEN /\ products' = deleted
             /\ order_items' = order_items
             /\ req' = [req EXCEPT ![r].pc = "done",
                                   ![r].message = "Product deleted successfully"]
        ELSE \E rule \in OnDeleteRules :
             /\ \A q \in Slots : req[q].on_delete \in {NoValue, rule}
             /\ IF rule = "RESTRICT"
                THEN /\ products' = products
                     /\ order_items' = order_items
                     /\ req' = [req EXCEPT ![r] =
                          MutationError([@ EXCEPT !.on_delete = rule])]
                ELSE /\ products' = deleted
                     /\ order_items' = OrderItemsAfterDelete(id, rule)
                     /\ req' = [req EXCEPT ![r].pc = "done", ![r].on_delete = rule,
                                           ![r].message = "Product deleted successfully"]
  /\ UNCHANGED <<orders, initial_stock, admin_orders>>

\* ----------------------------------------------------------- order creation
\* The id the database gives a row inserted into orders: one no row has.
FreshOrderId == "o" \o ToString(Cardinality(DOMAIN orders) + 1)

\* The checks both creation routes make on the request body, in the order of
\* the code: the name of the first one that answers, or "ok".
ValidateOrderRequest(cart, total_amount, shipping_address) ==
  IF Len(cart) = 0 THEN "Cart is empty"
  ELSE IF total_amount <= 0 THEN "Invalid total amount"
  ELSE IF shipping_address = NoValue THEN "Shipping address is required"
  ELSE "ok"

\* const COD_LIMIT = 50000
COD_LIMIT == 50000

\* Mutant of ExceedsCodLimit: the ceiling is not enforced.
ExceedsCodLimit_Never(total_amount) == FALSE

\* if (total_amount > COD_LIMIT)
ExceedsCodLimit(total_amount) == total_amount > COD_LIMIT

\* Mutant of CodOrder: the order is stored as a gateway order.
CodOrder_AsGateway(user_id) == NewOrder(user_id, NoValue)

\* The row the cash-on-delivery route inserts: no gateway intent.
CodOrder(user_id) == [NewOrder(user_id, NoValue) EXCEPT !.payment_method = "cod"]

\* A request arrives at the cash-on-delivery route: session, body, the
\* validation of the body and the ceiling on the amount.
CreateCodOrder(r, user, cart, total_amount, shipping_address) ==
  /\ Free(r)
  /\ LET rq == [IdleReq EXCEPT !.kind = "cod", !.user = user, !.cart = cart,
                               !.total_amount = total_amount,
                               !.shipping_address = shipping_address]
         invalid == ValidateOrderRequest(cart, total_amount, shipping_address)
     IN req' = [req EXCEPT ![r] =
          IF user = NoUser
          THEN Reply(rq, 401, "Unauthorized. Please sign in to continue.")
          ELSE IF invalid # "ok" THEN Reply(rq, 400, invalid)
          ELSE IF ExceedsCodLimit(total_amount)
               THEN Reply(rq, 400, "Cash on Delivery is available only for orders up to the limit")
          ELSE [rq EXCEPT !.pc = "cod_insert_order"]]
  /\ UNCHANGED <<products, orders, order_items, initial_stock, admin_orders>>

\* The insert into orders; the database may refuse it (500).
CodInsertOrder(r) ==
  /\ req[r].pc = "cod_insert_order"
  /\ \/ /\ orders' = orders @@ (FreshOrderId :> CodOrder(req[r].user))
        /\ req' = [req EXCEPT ![r].pc = "cod_insert_items", ![r].order = FreshOrderId]
     \/ /\ orders' = orders
        /\ req' = [req EXCEPT ![r] = Reply(@, 500, "Failed to create order")]
  /\ UNCHANGED <<products, order_items, initial_stock, admin_orders>>

\* The insert into order_items, whose failure is only logged; decrementStock
\* then starts on the submitted items.
CodInsertItems(r) ==
  /\ req[r].pc = "cod_insert_items"
  /\ \/ order_items' = order_items @@ (req[r].order :> req[r].cart)
     \/ order_items' = order_items
  /\ req' = [req EXCEPT ![r].pc = "decrement_read", ![r].items = req[r].cart, ![r].idx = 1]
  /\ UNCHANGED <<products, orders, initial_stock, admin_orders>>

\* The id razorpay.orders.create returns to request r: one the gateway has
\* not given before.
GatewayOrderId(r) == "order_" \o ToString(r)

\* Mutant of GatewayFailed: the failure is swallowed and the handler goes on.
GatewayFailed_Continues(rq) == [rq EXCEPT !.pc = "insert_order"]

\* razorpay.orders.create throws: the catch block answers 500.
GatewayFailed(rq) == Reply(rq, 500, "Internal server error")

\* A request arrives at the create-order route: session, body and the
\* validation of the body; the gateway is called next.
CreateOrder(r, user, cart, total_amount, shipping_address) ==
  /\ Free(r)
  /\ LET rq == [IdleReq EXCEPT !.kind = "create", !.user = user, !.cart = cart,
                               !.total_amount = total_amount,
                               !.shipping_address = shipping_address]
         invalid == ValidateOrderRequest(cart, total_amount, shipping_address)
     IN req' = [req EXCEPT ![r] =
          IF user = NoUser
          THEN Reply(rq, 401, "Unauthorized. Please sign in to continue.")
          ELSE IF invalid # "ok" THEN Reply(rq, 400, invalid)
          ELSE [rq EXCEPT !.pc = "gateway_create"]]
  /\ UNCHANGED <<products, orders, order_items, initial_stock, admin_orders>>

\* razorpay.orders.create: the gateway returns an intent, or the call throws.
GatewayCreateOrder(r) ==
  /\ req[r].pc = "gateway_create"
  /\ \/ req' = [req EXCEPT ![r].pc = "insert_order",
                           ![r].razorpay_order_id = GatewayOrderId(r)]
     \/ req' = [req EXCEPT ![r] = GatewayFailed(@)]
  /\ UNCHANGED <<products, orders, order_items, initial_stock, admin_orders>>

\* The insert into orders; the database may refuse it (500).
InsertOrder(r) ==
  /\ req[r].pc = "insert_order"
  /\ \/ /\ orders' = orders @@ (FreshOrderId :> NewOrder(req[r].user, req[r].razorpay_order_id))
        /\ req' = [req EXCEPT ![r].pc = "insert_items", ![r].order = FreshOrderId]
     \/ /\ orders' = orders
        /\ req' = [req EXCEPT ![r] = Reply(@, 500, "Failed to create order")]
  /\ UNCHANGED <<products, order_items, initial_stock, admin_orders>>

\* The insert into order_items, whose failure is only logged, and the
\* success answer.
InsertOrderItems(r) ==
  /\ req[r].pc = "insert_items"
  /\ \/ order_items' = order_items @@ (req[r].order :> req[r].cart)
     \/ order_items' = order_items
  /\ req' = [req EXCEPT ![r] = Reply(@, 200, "success")]
  /\ UNCHANGED <<products, orders, initial_stock, admin_orders>>

\* What the database puts into orders.payment_method, a nullable column, when
\* an insert does not name it: the column's default, which is part of the
\* schema and not in the repository.
PaymentMethodDefaults == {NoValue, "razorpay", "cod"}

\* The row useCreateOrder inserts: user_id, pending and pending; it names no
\* gateway intent and no payment method.
DirectOrder(user_id, payment_method) ==
  [NewOrder(user_id, NoValue) EXCEPT !.payment_method = payment_method]

\* useCreateOrder, called with an input in the browser that shows page a:
\* the hook checks nothing and goes to the insert into orders.  No page of
\* the repository calls it.
useCreateOrder(r, a, user_id, items, total_amount, shipping_address) ==
  /\ Free(r)
  /\ req' = [req EXCEPT ![r] =
       [IdleReq EXCEPT !.kind = "hook_create", !.user = user_id, !.cart = items,
                       !.total_amount = total_amount,
                       !.shipping_address = shipping_address, !.page = a,
                       !.pc = "hook_insert_order"]]
  /\ UNCHANGED <<products, orders, order_items, initial_stock, admin_orders>>

\* The mutation function of useCreateOrder throws: with a retry left it is
\* run again from its start, otherwise onError shows the error's text.
HookCreateError(rq) ==
  IF rq.retries < MutationRetry
  THEN [rq EXCEPT !.pc = "hook_insert_order", !.order = NoOrder,
                  !.retries = rq.retries + 1]
  ELSE [rq EXCEPT !.pc = "done", !.message = DatabaseError]

\* useCreateOrder: the insert into orders, or its error.  The default of
\* payment_method is one for the whole life of the database: the row gets
\* the value every earlier insert of the hook got.
HookInsertOrder(r) ==
  /\ req[r].pc = "hook_insert_order"
  /\ \/ \E payment_method \in PaymentMethodDefaults :
          /\ \A q \in Slots : req[q].kind = "hook_create"
                                => req[q].column_default \in {"unused", payment_method}
          /\ orders' = orders @@ (FreshOrderId :> DirectOrder(req[r].user, payment_method))
          /\ req' = [req EXCEPT ![r].pc = "hook_insert_items", ![r].order = FreshOrderId,
                                ![r].column_default = payment_method]
     \/ /\ orders' = orders
        /\ req' = [req EXCEPT ![r] = HookCreateError(@)]
  /\ UNCHANGED <<products, order_items, initial_stock, admin_orders>>

\* useCreateOrder: the insert into order_items, after which the mutation
\* function returns the order and the mutation has yet to settle; or the
\* insert's error, after which the order stays without items.  The hook does
\* not touch the stock.
HookInsertItems(r) ==
  /\ req[r].pc = "hook_insert_items"
  /\ \/ /\ order_items' = order_items @@ (req[r].order :> req[r].cart)
        /\ req' = [req EXCEPT ![r].pc = "response", ![r].http = 200]
     \/ /\ order_items' = order_items
        /\ req' = [req EXCEPT ![r] = HookCreateError(@)]
  /\ UNCHANGED <<products, orders, initial_stock, admin_orders>>

\* ----------------------------------------------------------- initial states
\* Two gateway orders as the create-order route leaves them (pending/pending,
\* payment_method razorpay, their intent id), both for product p1.  Item
\* quantities are those the cart produces: whole numbers from 1 up (the cart
\* removes an item whose quantity drops to 0).
InitWith(stocks, any_flag, q1s, q2s, nslots) ==
  /\ \E s \in stocks : \E b \in (IF any_flag THEN BOOLEAN ELSE {s > 0}) :
       /\ products = [p \in Products |-> [stock_quantity |-> s, in_stock |-> b]]
       /\ initial_stock = [p \in Products |-> s]
  /\ orders = [o \in OrderIds |-> NewOrder(Owner(o), RazorpayOrderId(o))]
  /\ \E q1 \in q1s, q2 \in q2s :
       order_items = [o \in OrderIds |->
                        <<[product_id |-> "p1", quantity |-> IF o = "o1" THEN q1 ELSE q2]>>]
  /\ req = [r \in 1..nslots |-> IdleReq]
  /\ admin_orders = [a \in AdminPages |-> MountedPage]

\* ------------------------------------------------------------------ inputs
UnknownOrderId == "o9"
UnknownRazorpayOrderId == "order_9"

\* The signature of the owner's genuine confirmation, one made with another
\* secret, and the genuine signature of the other order's confirmation.
ForgedSignature(z, p) == Hmac("guessed_secret", PaymentMessage(z, p))

ValidVerify(o) == <<Owner(o), o, RazorpayOrderId(o), expectedSignature(RazorpayOrderId(o), "pay_1")>>
TamperedVerify(o) == <<Owner(o), o, RazorpayOrderId(o), ForgedSignature(RazorpayOrderId(o), "pay_1")>>

\* Calls of the verify-payment route about order o1: the owner's valid call,
\* and that call with one of its fields replaced.
VerifyInputs ==
  { ValidVerify("o1"), TamperedVerify("o1"),
    <<"u1", "o1", "order_1", expectedSignature("order_2", "pay_1")>>,
    <<NoUser, "o1", "order_1", expectedSignature("order_1", "pay_1")>>,
    <<"u2", "o1", "order_1", expectedSignature("order_1", "pay_1")>>,
    <<"u1", UnknownOrderId, "order_1", expectedSignature("order_1", "pay_1")>>,
    <<"u1", "o1", "order_2", expectedSignature("order_2", "pay_1")>> }

SignedDelivery(event, z) ==
  LET body == RawBody(event, z, "pay_1", "card")
  IN <<body, Hmac(RAZORPAY_WEBHOOK_SECRET, body)>>

\* Deliveries to the webhook route about order o1: every event correctly
\* signed, an unknown order, and a missing or a wrong signature.
WebhookInputs ==
  { SignedDelivery(e, "order_1") : e \in WebhookEvents }
  \cup { SignedDelivery("payment.captured", UnknownRazorpayOrderId) }
  \cup { <<RawBody("payment.captured", "order_1", "pay_1", "card"), NoSignature>>,
         <<RawBody("payment.captured", "order_1", "pay_1", "card"),
           Hmac(RAZORPAY_KEY_SECRET, RawBody("payment.captured", "order_1", "pay_1", "card"))>> }

\* -------------------------------------------------------------- Spec
\* Requests are handled one after another: a request arrives only when no
\* handler is in flight.  Every update of an order, the select of an order's
\* items and every update of a product may return an error.
Init == InitWith({0, MaxStock}, FALSE, {1, MaxQty}, {1}, MaxReq)

ArriveVerify(r) ==
  \E c \in VerifyInputs : VerifyPayment(r, c[1], c[2], c[3], "pay_1", c[4])

ArriveWebhook(r) ==
  \E d \in WebhookInputs : Webhook(r, d[1], d[2])

Next ==
  \E r \in 1..MaxReq :
    \/ Quiescent /\ ArriveVerify(r)
    \/ Quiescent /\ ArriveWebhook(r)
    \/ VerifyMarkFailed(r)
    \/ VerifyMarkFailedFails(r)
    \/ VerifyMarkPaid(r)
    \/ VerifyMarkPaidFails(r)
    \/ FetchOrderItems(r)
    \/ FetchOrderItemsFails(r)
    \/ DecrementRead(r)
    \/ DecrementWrite(r)
    \/ DecrementWriteFails(r)
    \/ CapturedMarkPaid(r)
    \/ CapturedMarkPaidFails(r)
    \/ FailedMarkFailed(r)
    \/ FailedMarkFailedFails(r)

Spec == Init /\ [][Next]_vars

\* ---------------------------------------------------------- SpecSuccession
\* The same requests, one after another, in a run in which every database
\* call succeeds.
InitSuccession == InitWith(0..MaxStock, FALSE, 1..MaxQty, {1}, MaxReq)

NextSuccession ==
  \E r \in 1..MaxReq :
    \/ Quiescent /\ ArriveVerify(r)
    \/ Quiescent /\ ArriveWebhook(r)
    \/ VerifyMarkFailed(r)
    \/ VerifyMarkPaid(r)
    \/ FetchOrderItems(r)
    \/ DecrementRead(r)
    \/ DecrementWrite(r)
    \/ CapturedMarkPaid(r)
    \/ FailedMarkFailed(r)

SpecSuccession == InitSuccession /\ [][NextSuccession]_vars

\* -------------------------------------------------------------- SpecRace
\* Requests are handled concurrently: a request may arrive while others are
\* in flight, and the handlers' steps interleave at their awaits.  The
\* requests are those that pass the gates: the owners' confirmations of both
\* orders, a tampered confirmation, and signed webhook events for order o1.
InitRace == InitWith(0..MaxStock, FALSE, 1..MaxQty, 1..MaxQty, MaxConc)

RaceVerifyInputs == { ValidVerify(o) : o \in OrderIds } \cup { TamperedVerify("o1") }

RaceWebhookInputs ==
  { SignedDelivery(e, "order_1") : e \in {"payment.captured", "payment.failed"} }

RaceVerify(r) ==
  \E c \in RaceVerifyInputs : VerifyPayment(r, c[1], c[2], c[3], "pay_1", c[4])

RaceWebhook(r) ==
  \E d \in RaceWebhookInputs : Webhook(r, d[1], d[2])

NextRace ==
  \E r \in 1..MaxConc :
    \/ RaceVerify(r)
    \/ RaceWebhook(r)
    \/ VerifyMarkFailed(r)
    \/ VerifyMarkPaid(r)
    \/ FetchOrderItems(r)
    \/ DecrementRead(r)
    \/ DecrementWrite(r)
    \/ CapturedMarkPaid(r)
    \/ FailedMarkFailed(r)

SpecRace == InitRace /\ [][NextRace]_vars

\* ------------------------------------------------------------- SpecCancel
\* Confirmations and status transitions of order o1, one after another.  The
\* in_stock flag of a product starts at either value: the product form
\* writes stock_quantity and leaves in_stock as it was.
InitCancel == InitWith(0..MaxStock, TRUE, 1..MaxQty, {1}, MaxReq)

CancelStatusInputs == {"shipped", "cancelled"} \X {NoValue, "processing", "cancelled"}

ConfirmByVerify(r) ==
  LET c == ValidVerify("o1") IN VerifyPayment(r, c[1], c[2], c[3], "pay_1", c[4])

ConfirmByWebhook(r) ==
  LET d == SignedDelivery("payment.captured", "order_1") IN Webhook(r, d[1], d[2])

\* Bodies that lack orderId, newStatus or both.
IncompleteStatusInputs ==
  { <<NoValue, "shipped", "processing">>, <<"o1", NoValue, "processing">>,
    <<NoValue, NoValue, NoValue>> }

ArriveStatus(r) ==
  \/ \E t \in CancelStatusInputs : UpdateOrderStatus(r, "o1", t[1], t[2])
  \/ \E t \in IncompleteStatusInputs : UpdateOrderStatus(r, t[1], t[2], t[3])

NextCancel ==
  \E r \in 1..MaxReq :
    \/ Quiescent /\ ConfirmByVerify(r)
    \/ Quiescent /\ ConfirmByWebhook(r)
    \/ Quiescent /\ ArriveStatus(r)
    \/ VerifyMarkPaid(r)
    \/ CapturedMarkPaid(r)
    \/ FetchOrderItems(r)
    \/ DecrementRead(r)
    \/ DecrementWrite(r)
    \/ StatusFetchItems(r)
    \/ RestoreRead(r)
    \/ RestoreWrite(r)
    \/ StatusWrite(r)

SpecCancel == InitCancel /\ [][NextCancel]_vars

\* ------------------------------------------------------------ SpecWebhook
\* Deliveries to the webhook route, one after another: every event about a
\* known and about an unknown order and a body that is not JSON, each with
\* its genuine signature, with no signature header, with a signature made
\* with another secret and with the genuine signature of another body.
InitWebhook == InitWith({0, MaxStock}, FALSE, 1..MaxQty, {1}, MaxDeliveries)

DeliveryBodies ==
  { RawBody(e, z, "pay_1", "card") :
      e \in WebhookEvents, z \in {"order_1", UnknownRazorpayOrderId} }
  \cup { MalformedBody }

DeliverySignatures(body) ==
  { Hmac(RAZORPAY_WEBHOOK_SECRET, body),
    NoSignature,
    Hmac(RAZORPAY_KEY_SECRET, body),
    Hmac(RAZORPAY_WEBHOOK_SECRET, RawBody("order.paid", "order_2", "pay_1", "card")) }

ArriveDelivery(r) ==
  \E body \in DeliveryBodies : \E signature \in DeliverySignatures(body) :
    Webhook(r, body, signature)

NextWebhook ==
  \E r \in 1..MaxDeliveries :
    \/ Quiescent /\ ArriveDelivery(r)
    \/ CapturedMarkPaid(r)
    \/ FailedMarkFailed(r)
    \/ FetchOrderItems(r)
    \/ DecrementRead(r)
    \/ DecrementWrite(r)

SpecWebhook == InitWebhook /\ [][NextWebhook]_vars

\* -------------------------------------------------------------- SpecGates
\* Calls of the verify-payment route, one after another, in which every field
\* varies on its own: with and without a session, by either user, about
\* either order or an unknown one, naming either intent id, and carrying the
\* genuine signature for either intent or a forged one.
InitGates == InitWith({MaxStock}, FALSE, {MaxQty}, {1}, MaxCalls)

GateCalls ==
  (Users \cup {NoUser}) \X (OrderIds \cup {UnknownOrderId}) \X RazorpayOrderIds
  \X ({ expectedSignature(z, "pay_1") : z \in RazorpayOrderIds }
        \cup { ForgedSignature("order_1", "pay_1") })

ArriveCall(r) ==
  \E c \in GateCalls : VerifyPayment(r, c[1], c[2], c[3], "pay_1", c[4])

NextGates ==
  \E r \in 1..MaxCalls :
    \/ Quiescent /\ ArriveCall(r)
    \/ VerifyMarkFailed(r)
    \/ VerifyMarkPaid(r)
    \/ FetchOrderItems(r)
    \/ DecrementRead(r)
    \/ DecrementWrite(r)

SpecGates == InitGates /\ [][NextGates]_vars

\* --------------------------------------------------------------- SpecCod
\* Requests to the cash-on-delivery route, one after another, on a store with
\* no orders yet: the signed-in user's valid request at and around the
\* ceiling, and that request with one field missing.
InitCod ==
  /\ \E s \in {1, MaxStock} :
       /\ products = [p \in Products |-> [stock_quantity |-> s, in_stock |-> TRUE]]
       /\ initial_stock = [p \in Products |-> s]
  /\ orders = [o \in {} |-> NewOrder(NoUser, NoValue)]
  /\ order_items = [o \in {} |-> <<>>]
  /\ req = [r \in 1..MaxOrders |-> IdleReq]
  /\ admin_orders = [a \in AdminPages |-> MountedPage]

Carts == { <<[product_id |-> "p1", quantity |-> q]>> : q \in 1..MaxQty }

CodRequests ==
  ({"u1"} \X Carts \X {1, COD_LIMIT, COD_LIMIT + 1} \X {"address"})
  \cup { <<NoUser, <<[product_id |-> "p1", quantity |-> 1]>>, COD_LIMIT + 1, "address">>,
         <<"u1", <<>>, COD_LIMIT + 1, "address">>,
         <<"u1", <<[product_id |-> "p1", quantity |-> 1]>>, 0, "address">>,
         <<"u1", <<[product_id |-> "p1", quantity |-> 1]>>, COD_LIMIT + 1, NoValue>> }

NextCod ==
  \E r \in 1..MaxOrders :
    \/ /\ Quiescent
       /\ \E c \in CodRequests : CreateCodOrder(r, c[1], c[2], c[3], c[4])
    \/ CodInsertOrder(r)
    \/ CodInsertItems(r)
    \/ DecrementRead(r)
    \/ DecrementWrite(r)

SpecCod == InitCod /\ [][NextCod]_vars

\* ------------------------------------------------------------- SpecIntent
\* Requests to the create-order route, one after another, on a store with
\* no orders yet: valid requests of either user, and requests with one field
\* missing.  The gateway call and both inserts can fail.  Next to the route,
\* the useCreateOrder hook inserts orders of its own, in a browser that has
\* just opened its orders page, whose first fetch is under way.
InitIntent ==
  /\ products = [p \in Products |-> [stock_quantity |-> MaxStock, in_stock |-> TRUE]]
  /\ initial_stock = [p \in Products |-> MaxStock]
  /\ orders = [o \in {} |-> NewOrder(NoUser, NoValue)]
  /\ order_items = [o \in {} |-> <<>>]
  /\ req = [r \in 1..MaxOrders |-> IdleReq]
  /\ admin_orders = [a \in AdminPages |-> [MountedPage EXCEPT !.fetching = "orders"]]

CreateRequests ==
  (Users \X {<<[product_id |-> "p1", quantity |-> 1]>>} \X {1} \X {"address"})
  \cup { <<NoUser, <<[product_id |-> "p1", quantity |-> 1]>>, 1, "address">>,
         <<"u1", <<>>, 1, "address">>,
         <<"u1", <<[product_id |-> "p1", quantity |-> 1]>>, 0, "address">>,
         <<"u1", <<[product_id |-> "p1", quantity |-> 1]>>, 1, NoValue>> }

ArriveCreate(r) ==
  \E c \in CreateRequests : CreateOrder(r, c[1], c[2], c[3], c[4])

\* Inputs of the useCreateOrder hook: one the routes would accept and one
\* they would refuse.
HookCreateInputs ==
  { <<"u1", <<[product_id |-> "p1", quantity |-> 1]>>, 1, "address">>,
    <<"u1", <<[product_id |-> "p1", quantity |-> 1]>>, 0, NoValue>> }

NextIntent ==
  \E r \in 1..MaxOrders :
    \/ Quiescent /\ ArriveCreate(r)
    \/ /\ Quiescent
       /\ \E a \in AdminPages, c \in HookCreateInputs :
            useCreateOrder(r, a, c[1], c[2], c[3], c[4])
    \/ GatewayCreateOrder(r)
    \/ InsertOrder(r)
    \/ InsertOrderItems(r)
    \/ HookInsertOrder(r)
    \/ HookInsertItems(r)
    \/ MutationSettled(r)
    \/ \E a \in AdminPages :
         \/ FetchOrdersSelect(a)
         \/ FetchOrdersFails(a)
         \/ FetchOrdersPublish(a)

SpecIntent == InitIntent /\ [][NextIntent]_vars

\* ---------------------------------------------------------- SpecLifecycle
\* Everything that writes order o1 after its creation, one request after
\* another: the owner's verify-payment call with the genuine and with a
\* forged signature, signed captured and failed webhook events, and the
\* status select, the payment select and the tracking field of the open
\* admin page, which offer every status.  A page shows the list it fetched;
\* a change made on it makes it fetch the list again once the answer has
\* come back, in two selects, between which and after which the other
\* requests go on.
InitLifecycle == InitWith({MaxStock}, FALSE, {1}, {1}, MaxCalls)

NextLifecycle ==
  \/ \E r \in 1..MaxCalls :
       \/ /\ Quiescent
          /\ \E c \in {ValidVerify("o1"), TamperedVerify("o1")} :
               VerifyPayment(r, c[1], c[2], c[3], "pay_1", c[4])
       \/ /\ Quiescent
          /\ \E d \in RaceWebhookInputs : Webhook(r, d[1], d[2])
       \/ /\ Quiescent
          /\ \E a \in AdminPages, newStatus \in OrderStatuses :
               handleStatusChange(r, a, "o1", newStatus)
       \/ /\ Quiescent
          /\ \E a \in AdminPages, newStatus \in PaymentStatusOptions :
               handlePaymentStatusChange(r, a, "o1", newStatus)
       \/ /\ Quiescent
          /\ \E a \in AdminPages, trackingValue \in {"TRK1"} :
               handleTrackingUpdate(r, a, "o1", trackingValue)
       \/ VerifyMarkFailed(r)
       \/ VerifyMarkPaid(r)
       \/ CapturedMarkPaid(r)
       \/ FailedMarkFailed(r)
       \/ FetchOrderItems(r)
       \/ DecrementRead(r)
       \/ DecrementWrite(r)
       \/ StatusFetchItems(r)
       \/ RestoreRead(r)
       \/ RestoreWrite(r)
       \/ StatusWrite(r)
       \/ StatusWriteFails(r)
       \/ OrderColumnWrite(r)
       \/ OrderColumnWriteFails(r)
       \/ MutationSettled(r)
  \/ \E a \in AdminPages :
       \/ MountOrders(a)
       \/ FetchOrdersSelect(a)
       \/ FetchOrdersFails(a)
       \/ FetchOrdersPublish(a)

SpecLifecycle == InitLifecycle /\ [][NextLifecycle]_vars

\* -------------------------------------------------------------- SpecSwarm
\* Several confirmations of order o1 in flight at once: the owner's valid
\* verify-payment calls and deliveries of the signed payment.captured event,
\* their steps interleaving at the awaits.
InitSwarm == InitWith({MaxStock}, FALSE, {1}, {1}, MaxRacers)

NextSwarm ==
  \E r \in 1..MaxRacers :
    \/ LET c == ValidVerify("o1") IN VerifyPayment(r, c[1], c[2], c[3], "pay_1", c[4])
    \/ LET d == SignedDelivery("payment.captured", "order_1") IN Webhook(r, d[1], d[2])
    \/ VerifyMarkPaid(r)
    \/ CapturedMarkPaid(r)
    \/ FetchOrderItems(r)
    \/ DecrementRead(r)
    \/ DecrementWrite(r)

SpecSwarm == InitSwarm /\ [][NextSwarm]_vars

\* ------------------------------------------------------------- SpecAdjust
\* decrementStock and restoreStock on lists of two items: order o1 holds two
\* different products of the catalogue, and any update of a product may
\* return an error.  The order is confirmed (verify-payment call or captured
\* event) and cancelled through the status route, and a product is deleted
\* on the admin's product page, one request after another; where the
\* foreign key lets the delete of a product go through, the order's item
\* loses its product_id or is removed.  The select of the items and the
\* update of the status may return an error too.
StockedProducts == {"p1", "p2"}

\* An id no row of products has.
UnknownProductId == "p9"

ItemLists ==
  { <<[product_id |-> a, quantity |-> qa], [product_id |-> b, quantity |-> qb]>> :
      a \in StockedProducts, b \in StockedProducts,
      qa \in 1..MaxQty, qb \in 1..MaxQty }

InitAdjust ==
  /\ \E stock \in [StockedProducts -> {1, MaxStock}] :
       /\ products = [p \in StockedProducts |->
                        [stock_quantity |-> stock[p], in_stock |-> TRUE]]
       /\ initial_stock = stock
  /\ orders = [o \in OrderIds |-> NewOrder(Owner(o), RazorpayOrderId(o))]
  /\ \E items \in ItemLists :
       /\ items[1].product_id # items[2].product_id
       /\ order_items = [o \in OrderIds |-> IF o = "o1" THEN items ELSE <<>>]
  /\ req = [r \in 1..MaxCalls |-> IdleReq]
  /\ admin_orders = [a \in AdminPages |-> MountedPage]

NextAdjust ==
  \E r \in 1..MaxCalls :
    \/ Quiescent /\ ConfirmByVerify(r)
    \/ Quiescent /\ ConfirmByWebhook(r)
    \/ Quiescent /\ UpdateOrderStatus(r, "o1", "cancelled", NoValue)
    \/ Quiescent /\ \E id \in StockedProducts : DeleteProduct(r, id)
    \/ DeleteProductWrite(r)
    \/ VerifyMarkPaid(r)
    \/ CapturedMarkPaid(r)
    \/ FetchOrderItems(r)
    \/ DecrementRead(r)
    \/ DecrementWrite(r)
    \/ DecrementWriteFails(r)
    \/ StatusFetchItems(r)
    \/ StatusFetchItemsFails(r)
    \/ RestoreRead(r)
    \/ RestoreWrite(r)
    \/ RestoreWriteFails(r)
    \/ StatusWrite(r)
    \/ StatusWriteFails(r)

SpecAdjust == InitAdjust /\ [][NextAdjust]_vars

\* ------------------------------------------------------------- SpecFaults
\* Confirmations of order o1 (the owner's valid verify-payment call, the
\* signed payment.captured event) and rejections of its payment (the owner's
\* call with a forged signature, the signed payment.failed event), one after
\* another, on a database whose calls can fail: the update to paid, the
\* update to failed, the select of the order's items and the update of a
\* product may each return an error.
InitFaults == InitWith({0, MaxStock}, FALSE, 1..MaxQty, {1}, MaxCalls)

NextFaults ==
  \E r \in 1..MaxCalls :
    \/ Quiescent /\ ConfirmByVerify(r)
    \/ Quiescent /\ ConfirmByWebhook(r)
    \/ Quiescent /\ LET c == TamperedVerify("o1")
                    IN VerifyPayment(r, c[1], c[2], c[3], "pay_1", c[4])
    \/ Quiescent /\ LET d == SignedDelivery("payment.failed", "order_1")
                    IN Webhook(r, d[1], d[2])
    \/ VerifyMarkFailed(r)
    \/ VerifyMarkFailedFails(r)
    \/ FailedMarkFailed(r)
    \/ FailedMarkFailedFails(r)
    \/ VerifyMarkPaid(r)
    \/ VerifyMarkPaidFails(r)
    \/ CapturedMarkPaid(r)
    \/ CapturedMarkPaidFails(r)
    \/ FetchOrderItems(r)
    \/ FetchOrderItemsFails(r)
    \/ DecrementRead(r)
    \/ DecrementWrite(r)
    \/ DecrementWriteFails(r)

SpecFaults == InitFaults /\ [][NextFaults]_vars

\* ------------------------------------------------------------ SpecCatalog
\* The admin's product page next to the stock helper: products are edited,
\* created and deleted while order o1 is confirmed and cancelled.  The
\* handlers run one after another; the write of a call of the product page
\* (sent once more when it fails) may fall between two steps of a handler.
InitCatalog == InitWith({MaxStock}, FALSE, {1, MaxQty}, {1}, MaxCalls)

\* handleSubmit's dbData for an edit: of the two stock columns it holds
\* stock_quantity, never in_stock, and the number typed into the form's
\* stock field has no lower bound.
ProductEdits == { [stock_quantity |-> s] : s \in {-1, 0, MaxStock} }

\* handleSubmit's dbData for a new product: the same columns.
NewProducts == { [stock_quantity |-> s] : s \in {-1, 0, MaxStock} }

NextCatalog ==
  \E r \in 1..MaxCalls :
    \/ \E id \in Products \cup {UnknownProductId}, data \in ProductEdits :
         UpdateProduct(r, id, data)
    \/ \E data \in NewProducts : CreateProduct(r, data)
    \/ \E id \in Products : DeleteProduct(r, id)
    \/ UpdateProductWrite(r)
    \/ CreateProductWrite(r)
    \/ DeleteProductWrite(r)
    \/ ProductWriteFails(r)
    \/ Quiescent /\ ConfirmByVerify(r)
    \/ Quiescent /\ ConfirmByWebhook(r)
    \/ Quiescent /\ UpdateOrderStatus(r, "o1", "cancelled", NoValue)
    \/ VerifyMarkPaid(r)
    \/ CapturedMarkPaid(r)
    \/ FetchOrderItems(r)
    \/ DecrementRead(r)
    \/ DecrementWrite(r)
    \/ StatusFetchItems(r)
    \/ RestoreRead(r)
    \/ RestoreWrite(r)
    \/ StatusWrite(r)

SpecCatalog == InitCatalog /\ [][NextCatalog]_vars

\* ======================================================================
\* Properties
\* ======================================================================
Stock(p) == products[p].stock_quantity
Quantity(o) == order_items[o][1].quantity
Done(r) == req[r].pc = "done"
OthersIdle(used) == \A r \in Slots \ used : req[r].pc = "idle"

\* Request r is the owner's confirmation of order o with the genuine signature.
IsValidVerify(r, o) ==
  /\ req[r].kind = "verify"
  /\ req[r].order_id = o
  /\ req[r].user = orders[o].user_id
  /\ req[r].razorpay_order_id = orders[o].razorpay_order_id
  /\ req[r].signature = Hmac(RAZORPAY_KEY_SECRET,
         <<req[r].razorpay_order_id, "|", req[r].razorpay_payment_id>>)

\* Request r is a correctly signed webhook delivery of event e about order o.
IsSignedEvent(r, events, o) ==
  /\ req[r].kind = "webhook"
  /\ req[r].event \in events
  /\ req[r].razorpay_order_id = orders[o].razorpay_order_id
  /\ req[r].signature = Hmac(RAZORPAY_WEBHOOK_SECRET,
         <<req[r].event, req[r].razorpay_order_id, req[r].razorpay_payment_id,
           req[r].method>>)

CapturedEvents == {"payment.captured", "order.paid"}

\* Request r has entered decrementStock for order o.
RanDecrement(r, o) ==
  /\ req[r].kind \in {"verify", "webhook"}
  /\ req[r].order = o
  /\ req[r].items # <<>>

DecrementRuns(o) == Cardinality({r \in Slots : RanDecrement(r, o)})

\* C1 (as claimed): under every interleaving of verify-payment calls and
\* webhook deliveries, once an order's payment_status is paid no later write
\* sets it to failed.
C1_PaidNeverDowngraded ==
  [][\A o \in OrderIds :
       orders[o].payment_status = "paid" => orders'[o].payment_status # "failed"]_vars

\* C2 (as claimed): under every interleaving of verify-payment calls and
\* captured deliveries for one order, decrementStock runs exactly once for
\* the order: when the requests (all about order o1) have ended with the
\* order paid, its product's stock is the initial stock reduced by the
\* ordered quantity once.
C2_DecrementedExactlyOnce ==
  ( /\ Quiescent
    /\ orders["o1"].payment_status = "paid"
    /\ \A r \in Slots : req[r].pc = "done" =>
         (IsValidVerify(r, "o1") \/ IsSignedEvent(r, CapturedEvents, "o1")) )
  => Stock("p1") = Max(0, initial_stock["p1"] - Quantity("o1"))

\* C3: a payment.failed webhook event handled for an order that is paid
\* leaves its payment_status paid, so any sequence of such events does.
C3_FailedEventsKeepPaid ==
  [][\A o \in OrderIds :
       ( /\ orders[o].payment_status = "paid"
         /\ \E r \in Slots : /\ req'[r] # req[r]
                             /\ req'[r].kind = "webhook"
                             /\ req'[r].event = "payment.failed" )
       => orders'[o].payment_status = "paid"]_vars

\* Order o1 was confirmed by the first request and two payment.failed events
\* were then handled and acknowledged; the order is paid.
C3_Witness ==
  /\ Done(1) /\ (IsValidVerify(1, "o1") \/ IsSignedEvent(1, CapturedEvents, "o1"))
  /\ \A r \in {2, 3} : Done(r) /\ IsSignedEvent(r, {"payment.failed"}, "o1")
                               /\ req[r].http = 200
  /\ orders["o1"].payment_status = "paid"

\* C4: two verify-payment calls in succession with the same valid payload
\* both answer success and leave the order paid, and only the first one
\* decrements stock: after the first call, and after the second, the stock
\* is the initial stock reduced once by the ordered quantity.
C4_VerifyTwiceDecrementsOnce ==
  /\ ( /\ Done(1) /\ IsValidVerify(1, "o1") /\ OthersIdle({1}) )
     => /\ req[1].http = 200
        /\ orders["o1"].payment_status = "paid"
        /\ Stock("p1") = Max(0, initial_stock["p1"] - Quantity("o1"))
  /\ ( /\ Done(1) /\ IsValidVerify(1, "o1")
       /\ Done(2) /\ IsValidVerify(2, "o1") /\ OthersIdle({1, 2}) )
     => /\ req[1].http = 200 /\ req[2].http = 200
        /\ orders["o1"].payment_status = "paid"
        /\ req[2].updatedProducts = <<>>
        /\ Stock("p1") = Max(0, initial_stock["p1"] - Quantity("o1"))

\* 2 units of a product with stock 5: stock is 3 after the second valid call.
C4_Witness ==
  /\ Done(1) /\ IsValidVerify(1, "o1")
  /\ Done(2) /\ IsValidVerify(2, "o1") /\ OthersIdle({1, 2})
  /\ req[2].message = "Payment already verified"
  /\ initial_stock["p1"] = 5 /\ Quantity("o1") = 2 /\ Stock("p1") = 3

\* C5: a captured webhook followed by a valid verify-payment call, and the
\* call followed by the webhook, both end with order o1 paid and processing
\* and the product's stock decremented once by the ordered quantity.
C5_BothOrdersConverge ==
  \A a, b \in {1, 2} :
    ( /\ a # b
      /\ Done(a) /\ IsSignedEvent(a, CapturedEvents, "o1")
      /\ Done(b) /\ IsValidVerify(b, "o1")
      /\ OthersIdle({1, 2}) )
    => /\ orders["o1"].payment_status = "paid"
       /\ orders["o1"].status = "processing"
       /\ Stock("p1") = Max(0, initial_stock["p1"] - Quantity("o1"))
       /\ req[a].http = 200 /\ req[b].http = 200

\* The webhook came first and the verify-payment call second.
C5_Witness ==
  /\ Done(1) /\ IsSignedEvent(1, CapturedEvents, "o1")
  /\ Done(2) /\ IsValidVerify(2, "o1") /\ OthersIdle({1, 2})
  /\ initial_stock["p1"] = 5 /\ Quantity("o1") = 2 /\ Stock("p1") = 3
  /\ orders["o1"].payment_status = "paid" /\ orders["o1"].status = "processing"

IsTamperedVerify(r, o) ==
  /\ req[r].kind = "verify"
  /\ req[r].order_id = o
  /\ req[r].user = orders[o].user_id
  /\ req[r].razorpay_order_id = orders[o].razorpay_order_id
  /\ req[r].signature # Hmac(RAZORPAY_KEY_SECRET,
         <<req[r].razorpay_order_id, "|", req[r].razorpay_payment_id>>)

\* C7 (as claimed): every verify-payment call whose signature is not the
\* expected one is answered with a 400-class error and leaves the order's
\* payment_status failed, except that an order already paid stays as it is
\* and no stock changes.
C7_TamperedSignatureRejected ==
  [][\A r \in Slots : \A o \in OrderIds :
       ( /\ req[r].pc # "done" /\ req'[r].pc = "done"
         /\ req'[r].kind = "verify" /\ req'[r].order_id = o
         /\ req'[r].signature # Hmac(RAZORPAY_KEY_SECRET,
                <<req'[r].razorpay_order_id, "|", req'[r].razorpay_payment_id>>) )
       => /\ req'[r].http \in 400..499
          /\ products' = products
          /\ IF orders[o].payment_status = "paid"
             THEN orders' = orders
             ELSE orders'[o].payment_status = "failed"]_vars

\* Request r is a confirmation of order o: a valid verify-payment call or a
\* signed captured event.
IsConfirm(r, o) == IsValidVerify(r, o) \/ IsSignedEvent(r, CapturedEvents, o)

\* C8 (as claimed): after every write of decrementStock and restoreStock, in
\* any sequence, every product of the catalogue has stock_quantity >= 0 and
\* has in_stock false exactly when its stock_quantity is 0; a decrement
\* larger than the stock it read leaves 0.
C8_StockFloor ==
  [][\A r \in Slots :
       ( /\ req[r].pc \in {"decrement_write", "restore_write"}
         /\ Len(req'[r].updatedProducts) > Len(req[r].updatedProducts) )
       => /\ \A p \in DOMAIN products' :
               /\ products'[p].stock_quantity >= 0
               /\ ( /\ "in_stock" \in DOMAIN products'[p]
                    /\ products'[p].in_stock = FALSE )
                  <=> products'[p].stock_quantity = 0
          /\ LET item == req[r].items[req[r].idx]
             IN ( /\ req[r].pc = "decrement_write"
                  /\ req[r].currentStock < item.quantity
                  /\ item.product_id \in DOMAIN products' )
                => products'[item.product_id].stock_quantity = 0]_vars

\* Order o1 was confirmed by the first request and cancelled by the second
\* through the order status route, which ran restoreStock.
ConfirmedThenCancelled ==
  /\ Done(1) /\ IsConfirm(1, "o1")
  /\ Done(2) /\ req[2].kind = "status" /\ req[2].order = "o1"
  /\ req[2].newStatus = "cancelled" /\ req[2].previousStatus # "cancelled"
  /\ OthersIdle({1, 2})

\* C9 (as claimed): cancelling a paid/processing order adds back exactly what
\* was removed from stock at confirmation, so stock after confirm-then-cancel
\* equals the stock before the confirmation, for every starting stock.
C9_CancelRestoresWhatWasRemoved ==
  ConfirmedThenCancelled => Stock("p1") = initial_stock["p1"]

\* C9 (amended): cancelling adds back the ordered quantity of each item; stock
\* after confirm-then-cancel equals the stock before the confirmation when
\* that stock was at least the ordered quantity, and equals the ordered
\* quantity (more than before) when the decrement was clamped at zero.
C9_CancelRestoresOrderedQuantity ==
  ConfirmedThenCancelled =>
    /\ orders["o1"].status = "cancelled"
    /\ Stock("p1") = IF initial_stock["p1"] >= Quantity("o1")
                     THEN initial_stock["p1"]
                     ELSE Quantity("o1")

\* Confirm-then-cancel from a stock of 1 with 2 units ordered ends at 2.
C9_Witness ==
  /\ ConfirmedThenCancelled
  /\ initial_stock["p1"] = 1 /\ Quantity("o1") = 2 /\ Stock("p1") = 2

\* C10 (as claimed): when orders o1 and o2 for the same product are confirmed
\* concurrently, both decrements take effect: with enough stock the final
\* stock_quantity is the initial stock minus both quantities.
C10_NoLostUpdate ==
  ( /\ Done(1) /\ Done(2) /\ OthersIdle({1, 2})
    /\ \E a, b \in {1, 2} : a # b /\ IsConfirm(a, "o1") /\ IsConfirm(b, "o2")
    /\ initial_stock["p1"] >= Quantity("o1") + Quantity("o2") )
  => Stock("p1") = initial_stock["p1"] - Quantity("o1") - Quantity("o2")

\* C11: a payment.failed webhook event handled for an order that is paid
\* changes no field of any order (payment_status stays paid, payment_metadata
\* keeps what the confirmation wrote) and is acknowledged at once.
C11_FailedEventOnPaidWritesNothing ==
  [][\A r \in Slots :
       LET o == OrderByRazorpayId(req'[r].razorpay_order_id)
       IN ( /\ req'[r] # req[r]
            /\ req'[r].kind = "webhook" /\ req'[r].event = "payment.failed"
            /\ o # NoOrder
            /\ orders[o].payment_status = "paid" )
          => /\ orders' = orders
             /\ req'[r].pc = "done" /\ req'[r].http = 200]_vars

\* A signed payment.failed event came after the verify-payment call that
\* confirmed order o1: the order still carries the confirmation's metadata.
C11_Witness ==
  /\ Done(1) /\ IsValidVerify(1, "o1")
  /\ Done(2) /\ IsSignedEvent(2, {"payment.failed"}, "o1") /\ req[2].http = 200
  /\ orders["o1"].payment_status = "paid"
  /\ orders["o1"].payment_metadata = "signature"

\* Request r is a webhook delivery whose signature header is the HMAC of its
\* raw body under the webhook secret.
HasGenuineSignature(r) ==
  req[r].kind = "webhook" /\ req[r].signature = Hmac(RAZORPAY_WEBHOOK_SECRET, req[r].rawBody)

Is2xx(code) == code \in 200..299

\* C12 (as claimed): the webhook route answers non-2xx exactly when the
\* signature is missing or invalid or the body cannot be parsed; a correctly
\* signed body that cannot be parsed is answered non-2xx.
C12_Non2xxOnBadSignatureOrMalformed ==
  \A r \in Slots :
    (Done(r) /\ req[r].kind = "webhook")
    => (~Is2xx(req[r].http) <=> (~HasGenuineSignature(r) \/ ~Parses(req[r].rawBody)))

\* C13: a webhook delivery whose signature header is absent or is not
\* HMAC-SHA256(webhookSecret, rawBody) is answered 400 at once and changes no
\* order and no product, whatever event and order its body names.
C13_BadSignatureRejected ==
  [][\A r \in Slots :
       ( /\ req[r].pc = "idle" /\ req'[r].kind = "webhook"
         /\ req'[r].signature # Hmac(RAZORPAY_WEBHOOK_SECRET, req'[r].rawBody) )
       => /\ req'[r].pc = "done" /\ req'[r].http = 400
          /\ orders' = orders /\ products' = products
          /\ order_items' = order_items]_vars

\* Two captured events for the pending order o1, one signed with another
\* secret and one carrying the genuine signature of another body, were both
\* answered 400; the order is still pending and the stock is untouched.
C13_Witness ==
  /\ \A r \in {1, 2} : /\ Done(r) /\ req[r].kind = "webhook" /\ req[r].http = 400
                       /\ req[r].event = "payment.captured"
                       /\ req[r].razorpay_order_id = "order_1"
                       /\ req[r].signature # NoSignature
  /\ req[1].signature # req[2].signature
  /\ orders["o1"] = NewOrder("u1", "order_1")
  /\ initial_stock["p1"] = MaxStock /\ Stock("p1") = MaxStock

\* C14: a verify-payment call (with all its fields present) is answered by
\* the first gate it fails, in the order no session (401), unknown order
\* (404), caller not the owner (403), intent id other than the stored one
\* (400); a call answered by one of these gates changes no order and no
\* product, whatever signature it carries.
C14_GatesInOrder ==
  [][\A r \in Slots :
       LET c == req'[r]
           known == c.order_id \in DOMAIN orders
           owner == known /\ orders[c.order_id].user_id = c.user
           intent == known /\ orders[c.order_id].razorpay_order_id = c.razorpay_order_id
       IN ( /\ req[r].pc = "idle" /\ c.kind = "verify"
            /\ NoValue \notin {c.order_id, c.razorpay_order_id, c.razorpay_payment_id}
            /\ c.signature # NoSignature )
          => /\ (c.user = NoUser) => c.http = 401
             /\ (c.user # NoUser /\ ~known) => c.http = 404
             /\ (c.user # NoUser /\ known /\ ~owner) => c.http = 403
             /\ (c.user # NoUser /\ owner /\ ~intent) => c.http = 400
             /\ (c.user = NoUser \/ ~owner \/ ~intent)
                  => /\ c.pc = "done"
                     /\ orders' = orders /\ products' = products
                     /\ order_items' = order_items]_vars

\* User u1 named the own order o1 with the intent id of order o2 and the
\* genuine signature for that intent: answered 400, both orders still pending;
\* then the same call about order o2, which u1 does not own: answered 403.
C14_Witness ==
  /\ Done(1) /\ req[1].kind = "verify" /\ req[1].user = "u1" /\ req[1].order_id = "o1"
  /\ req[1].razorpay_order_id = "order_2"
  /\ req[1].signature = expectedSignature("order_2", "pay_1")
  /\ req[1].http = 400 /\ req[1].message = "Order ID mismatch"
  /\ Done(2) /\ req[2].kind = "verify" /\ req[2].user = "u1" /\ req[2].order_id = "o2"
  /\ req[2].razorpay_order_id = "order_1" /\ req[2].http = 403
  /\ \A o \in OrderIds : orders[o] = NewOrder(Owner(o), RazorpayOrderId(o))
  /\ Stock("p1") = initial_stock["p1"]

\* C15: a cash-on-delivery request whose total amount exceeds the ceiling is
\* answered 400 at once and adds no order and no order items and changes no
\* product; no order is ever created by a request that named such an amount.
C15_CodCeiling ==
  [][\A r \in Slots :
       ( /\ req[r].pc = "idle" /\ req'[r].kind = "cod"
         /\ req'[r].total_amount > 50000 )
       => /\ req'[r].pc = "done"
          /\ req'[r].http \in {400, 401}
          /\ req'[r].user # NoUser => req'[r].http = 400
          /\ orders' = orders /\ order_items' = order_items
          /\ products' = products]_vars

\* After an order within the ceiling was placed, a request for 50001 by the
\* same user with a cart and an address was answered 400: there is still one
\* order, and the stock is what the first order left.
C15_Witness ==
  /\ Done(1) /\ req[1].kind = "cod" /\ req[1].http = 200 /\ req[1].total_amount = 50000
  /\ Done(2) /\ req[2].kind = "cod" /\ req[2].user = "u1" /\ req[2].cart # <<>>
  /\ req[2].shipping_address # NoValue
  /\ req[2].total_amount = 50001 /\ req[2].http = 400
  /\ req[2].message = "Cash on Delivery is available only for orders up to the limit"
  /\ DOMAIN orders = {"o1"} /\ DOMAIN order_items = {"o1"}
  /\ Stock("p1") = initial_stock["p1"] - req[1].cart[1].quantity

\* C16: when the gateway's create-intent call fails, the request is answered
\* with an error (500) and no order and no order items are persisted by it.
C16_GatewayFailurePersistsNothing ==
  [][\A r \in Slots :
       ( /\ req[r].pc = "gateway_create"
         /\ req'[r] # req[r]
         /\ req'[r].razorpay_order_id = NoValue )
       => /\ req'[r].pc = "done" /\ req'[r].http = 500
          /\ req'[r].order = NoOrder
          /\ orders' = orders /\ order_items' = order_items]_vars

\* Two valid requests both met a failing gateway: both were answered 500 and
\* the orders and order_items tables are still empty.
C16_Witness ==
  /\ \A r \in {1, 2} : /\ Done(r) /\ req[r].kind = "create" /\ req[r].http = 500
                       /\ req[r].message = "Internal server error"
                       /\ req[r].user # NoUser /\ req[r].cart # <<>>
  /\ DOMAIN orders = {} /\ DOMAIN order_items = {}

\* C17 (as claimed): every create-order request answered with success has
\* left an order that is pending/pending, paid through the gateway, carries
\* the intent id the gateway returned, and has the submitted items as its
\* order items; success is never answered for an order without order items.
C17_SuccessLeavesOrderWithItems ==
  \A r \in Slots :
    (Done(r) /\ req[r].kind = "create" /\ req[r].http = 200)
    => /\ req[r].order \in DOMAIN orders
       /\ orders[req[r].order] = NewOrder(req[r].user, req[r].razorpay_order_id)
       /\ req[r].razorpay_order_id = GatewayOrderId(r)
       /\ ItemsOf(req[r].order) = req[r].cart
       /\ ItemsOf(req[r].order) # <<>>

\* C18: no step of the verify-payment route, of the webhook handlers or of
\* the order status route changes the razorpay_order_id an order was created
\* with.
C18_IntentIdImmutable ==
  [][\A o \in DOMAIN orders :
       /\ o \in DOMAIN orders'
       /\ orders'[o].razorpay_order_id = orders[o].razorpay_order_id]_vars

\* Order o1 was confirmed by a verify-payment call and then cancelled through
\* the status route: every other payment column was written, its intent id is
\* the one it was created with.
C18_Witness ==
  /\ Done(1) /\ IsValidVerify(1, "o1")
  /\ Done(2) /\ req[2].kind = "status" /\ req[2].newStatus = "cancelled"
  /\ orders["o1"].razorpay_payment_id = "pay_1"
  /\ orders["o1"].payment_status = "paid" /\ orders["o1"].status = "cancelled"
  /\ orders["o1"].razorpay_order_id = RazorpayOrderId("o1")

\* pending -> processing -> shipped -> delivered
StatusRank(status) ==
  CASE status = "pending" -> 1
    [] status = "processing" -> 2
    [] status = "shipped" -> 3
    [] status = "delivered" -> 4
    [] OTHER -> 0

\* A fulfilment status may stay, move forward along the chain, or become
\* cancelled from a pre-shipped status.
MovesForward(old, new) ==
  \/ new = old
  \/ old # "cancelled" /\ new # "cancelled" /\ StatusRank(new) > StatusRank(old)
  \/ new = "cancelled" /\ old \in {"pending", "processing"}

\* C19 (as claimed): under any sequence of status changes, verify-payment
\* calls and webhook events, an order's fulfilment status only moves forward
\* along pending -> processing -> shipped -> delivered, or to cancelled from a
\* pre-shipped status.
C19_StatusOnlyMovesForward ==
  [][\A o \in OrderIds : MovesForward(orders[o].status, orders'[o].status)]_vars

\* Request r left order o failed: a verify-payment call with a signature that
\* does not match, or a signed payment.failed event.
IsFailure(r, o) == IsTamperedVerify(r, o) \/ IsSignedEvent(r, {"payment.failed"}, o)

\* C20: an order that a tampered verify-payment call or a payment.failed
\* event left failed becomes paid and processing on a later valid
\* verify-payment call or captured event, which is answered 200 and
\* decrements the stock of the order's product once.
C20_FailedThenPaid ==
  /\ ( /\ Done(1) /\ IsFailure(1, "o1") /\ OthersIdle({1}) )
     => /\ orders["o1"].payment_status = "failed"
        /\ Stock("p1") = initial_stock["p1"]
  /\ ( /\ Done(1) /\ IsFailure(1, "o1")
       /\ Done(2) /\ IsConfirm(2, "o1") /\ OthersIdle({1, 2}) )
     => /\ req[2].http = 200
        /\ orders["o1"].payment_status = "paid"
        /\ orders["o1"].status = "processing"
        /\ req[2].updatedProducts = <<"p1">>
        /\ Stock("p1") = Max(0, initial_stock["p1"] - Quantity("o1"))

\* A forged confirmation left order o1 failed; the owner's retry with the
\* genuine signature then made it paid and took 2 units from a stock of 5.
C20_Witness ==
  /\ Done(1) /\ IsTamperedVerify(1, "o1") /\ req[1].http = 400
  /\ Done(2) /\ IsValidVerify(2, "o1") /\ OthersIdle({1, 2})
  /\ req[2].message = "Payment verified successfully"
  /\ orders["o1"].payment_status = "paid" /\ orders["o1"].status = "processing"
  /\ initial_stock["p1"] = 5 /\ Quantity("o1") = 2 /\ Stock("p1") = 3

\* C21: when a captured event is delivered again for an order that an earlier
\* delivery made paid, the later delivery is acknowledged with 200 at once
\* and changes no order and no product: only the first delivery writes.
C21_DuplicateCapturedIgnored ==
  [][\A r \in Slots :
       LET o == OrderByRazorpayId(req'[r].razorpay_order_id)
       IN ( /\ req[r].pc = "idle" /\ req'[r].kind = "webhook"
            /\ req'[r].event \in CapturedEvents
            /\ req'[r].signature = Hmac(RAZORPAY_WEBHOOK_SECRET, req'[r].rawBody)
            /\ \E q \in Slots : /\ Done(q) /\ req[q].rawBody = req'[r].rawBody
                                /\ req[q].signature = req'[r].signature
                                /\ req[q].updatedProducts # <<>> )
          => /\ req'[r].pc = "done" /\ req'[r].http = 200
             /\ orders' = orders /\ products' = products]_vars

\* The same payment.captured event was delivered twice: the first delivery
\* took the ordered quantity from the stock, the second wrote nothing.
C21_Witness ==
  /\ Done(1) /\ IsSignedEvent(1, {"payment.captured"}, "o1")
  /\ Done(2) /\ req[2] = [req[1] EXCEPT !.items = <<>>, !.idx = 0, !.order = NoOrder,
                                        !.updatedProducts = <<>>, !.currentStock = 0,
                                        !.success = FALSE]
  /\ req[1].updatedProducts = <<"p1">>
  /\ orders["o1"].payment_status = "paid"
  /\ initial_stock["p1"] = MaxStock /\ Stock("p1") = MaxStock - Quantity("o1")

\* C22 (as claimed): however many verify-payment calls and captured
\* deliveries for order o1 race through the gap between the select and the
\* update, the order's items are taken from the stock at most twice: the
\* stock never falls below the initial stock less twice the ordered quantity.
C22_AtMostTwoDecrements ==
  Stock("p1") >= initial_stock["p1"] - 2 * Quantity("o1")

Range(seq) == { seq[i] : i \in 1..Len(seq) }

\* The quantity of product p in the list of request r (products are distinct
\* in a list).
QuantityIn(r, p) ==
  LET i == CHOOSE i \in 1..Len(req[r].items) : req[r].items[i].product_id = p
  IN req[r].items[i].quantity

\* Request r has returned from decrementStock or restoreStock.
AdjusterReturned(r) == Done(r) /\ req[r].items # <<>>

\* Request r is the only one that has entered decrementStock or restoreStock,
\* and no request has come after it.
OnlyAdjusterRun(r) ==
  \A q \in Slots \ {r} :
    /\ req[q].items = <<>>
    /\ q > r => req[q].pc = "idle"

\* C23: decrementStock and restoreStock go through every item of their list
\* even when an earlier item fails: every item ends either in updatedProducts
\* or in errors (one entry each), success is true exactly when errors is
\* empty, an item whose product is missing ends in errors, a product in
\* updatedProducts has its stock updated and a product in errors keeps its
\* stock.
C23_AdjusterContinuesPastFailures ==
  \A r \in Slots :
    AdjusterReturned(r) =>
      /\ Len(req[r].updatedProducts) + Len(req[r].errors) = Len(req[r].items)
      /\ Range(req[r].updatedProducts) \cup Range(req[r].errors)
           = { req[r].items[i].product_id : i \in 1..Len(req[r].items) }
      /\ Range(req[r].updatedProducts) \cap Range(req[r].errors) = {}
      /\ req[r].success <=> req[r].errors = <<>>
      /\ OnlyAdjusterRun(r) =>
           /\ \A i \in 1..Len(req[r].items) :
                req[r].items[i].product_id \notin DOMAIN products
                  => req[r].items[i].product_id \in Range(req[r].errors)
           /\ \A p \in DOMAIN products :
                Stock(p) = IF p \notin Range(req[r].updatedProducts) THEN initial_stock[p]
                           ELSE IF req[r].kind = "status"
                                THEN initial_stock[p] + QuantityIn(r, p)
                                ELSE Max(0, initial_stock[p] - QuantityIn(r, p))

\* Product p1 was deleted and the foreign key set the product_id of the
\* order's first item to null; decrementStock then ran on the list: the
\* first item failed, the second, p2, came after it and was decremented,
\* and success is false.
C23_Witness ==
  /\ Done(1) /\ req[1].kind = "product_delete" /\ req[1].product_id = "p1"
  /\ AdjusterReturned(2) /\ req[2].kind \in {"verify", "webhook"}
  /\ req[2].items[1].product_id = NoValue /\ req[2].items[2].product_id = "p2"
  /\ req[2].errors = <<NoValue>> /\ req[2].updatedProducts = <<"p2">>
  /\ ~req[2].success
  /\ initial_stock["p2"] = MaxStock
  /\ Stock("p2") = MaxStock - QuantityIn(2, "p2")

\* C24: when the select of the order's items or the update of a product
\* fails during a verify-payment call or a captured event, the confirmation
\* stands: the request ends with the order still paid and processing, and
\* the verify-payment call still answers 200 with success.
C24_StockFailuresAreSoft ==
  [][\A r \in Slots :
       ( /\ req[r].pc \in {"fetch_items", "decrement_read", "decrement_write"}
         /\ req[r].kind \in {"verify", "webhook"}
         /\ req'[r].pc = "done" )
       => /\ orders' = orders
          /\ orders'[req[r].order].payment_status = "paid"
          /\ orders'[req[r].order].status = "processing"
          /\ req'[r].http = 200
          /\ req[r].kind = "verify" => req'[r].message = "Payment verified successfully"]_vars

\* In a valid verify-payment call the update of product p1 failed: the call
\* answered 200 with success, the order is paid and processing and the stock
\* is what it was.
C24_Witness ==
  /\ Done(1) /\ IsValidVerify(1, "o1") /\ req[1].errors = <<"p1">>
  /\ req[1].http = 200 /\ req[1].message = "Payment verified successfully"
  /\ orders["o1"].payment_status = "paid" /\ orders["o1"].status = "processing"
  /\ Stock("p1") = initial_stock["p1"] /\ initial_stock["p1"] = MaxStock

\* C27: in the verify-payment route and in handlePaymentCaptured a product
\* is written only by a request whose order is paid, and a request whose
\* update to paid fails ends there (the verify-payment call with 500)
\* without having changed any product.
C27_DecrementOnlyAfterPaidWrite ==
  [][\A r \in Slots :
       /\ ( /\ req[r].kind \in {"verify", "webhook"}
            /\ req[r].pc = "decrement_write" /\ products' # products )
          => orders[req[r].order].payment_status = "paid"
       /\ ( /\ req[r].pc \in {"verify_paid", "captured_paid"}
            /\ orders' = orders /\ req'[r] # req[r] )
          => /\ req'[r].pc = "done"
             /\ req'[r].updatedProducts = <<>>
             /\ products' = products
             /\ req[r].kind = "verify" => req'[r].http = 500]_vars

\* A verify-payment call whose update to paid failed was answered 500 and
\* left order and stock as they were; the captured event that came next
\* made the order paid and took the ordered quantity from the stock.
C27_Witness ==
  /\ Done(1) /\ IsValidVerify(1, "o1") /\ req[1].http = 500
  /\ req[1].message = "Failed to update order status" /\ req[1].updatedProducts = <<>>
  /\ Done(2) /\ IsSignedEvent(2, CapturedEvents, "o1") /\ req[2].updatedProducts = <<"p1">>
  /\ orders["o1"].payment_status = "paid"
  /\ initial_stock["p1"] = MaxStock /\ Stock("p1") = MaxStock - Quantity("o1")

\* C30 (as claimed): whenever the webhook route has acknowledged a correctly
\* signed captured event for an existing order with 2xx, that order's
\* payment_status is paid.
C30_AcknowledgedCaptureIsPaid ==
  \A r \in Slots : \A o \in OrderIds :
    (Done(r) /\ IsSignedEvent(r, CapturedEvents, o) /\ Is2xx(req[r].http))
    => orders[o].payment_status = "paid"

\* C25 (as claimed): when the status route writes cancelled to an order that
\* was not cancelled, restoreStock has run over all the order's items; while
\* stock is being restored the route has not yet written the order; and a
\* change to any other status changes no product.
C25_RestoreBeforeStatusWrite ==
  [][\A r \in Slots :
       /\ ( /\ req[r].kind = "status" /\ req[r].pc = "status_write"
            /\ req[r].newStatus = "cancelled"
            /\ req[r].order \in DOMAIN orders
            /\ orders[req[r].order].status # "cancelled"
            /\ orders'[req[r].order].status = "cancelled"
            /\ ItemsOf(req[r].order) # <<>> )
          => /\ Len(req[r].updatedProducts) = Len(ItemsOf(req[r].order))
             /\ products' = products
       /\ ( /\ req[r].kind = "status" /\ req'[r] # req[r]
            /\ products' # products )
          => /\ orders' = orders
             /\ req[r].newStatus = "cancelled"
             /\ req[r].pc = "restore_write"
             /\ req'[r].pc \in {"restore_read", "status_write"}
       /\ ( /\ req'[r].kind = "status" /\ req'[r] # req[r]
            /\ req'[r].newStatus # "cancelled" )
          => /\ products' = products
             /\ req'[r].updatedProducts = <<>>]_vars

\* C26: a signed-in cash-on-delivery request with a cart, an address and an
\* amount within the ceiling that is answered 200 has created an order of its
\* user with payment_method cod, payment_status pending and status pending
\* and no gateway intent, and has decremented the stock of every submitted
\* item (down to zero at most) in the same request, the order being still
\* unpaid; the only other answer is 500, when the insert of the order was
\* refused, and then nothing was decremented.
C26_CodPlacesOrderAndTakesStock ==
  /\ \A r \in Slots :
       ( /\ Done(r) /\ req[r].kind = "cod" /\ req[r].user # NoUser
         /\ req[r].cart # <<>> /\ req[r].shipping_address # NoValue
         /\ req[r].total_amount > 0 /\ req[r].total_amount <= COD_LIMIT )
       => /\ req[r].http \in {200, 500}
          /\ req[r].razorpay_order_id = NoValue
          /\ req[r].http = 500 => req[r].updatedProducts = <<>>
          /\ req[r].http = 200 =>
               /\ req[r].order \in DOMAIN orders
               /\ orders[req[r].order].user_id = req[r].user
               /\ orders[req[r].order].payment_method = "cod"
               /\ orders[req[r].order].payment_status = "pending"
               /\ orders[req[r].order].status = "pending"
               /\ orders[req[r].order].razorpay_order_id = NoValue
               /\ req[r].updatedProducts
                    = [i \in 1..Len(req[r].cart) |-> req[r].cart[i].product_id]
               /\ req[r].errors = <<>>
  /\ ( /\ Done(1) /\ req[1].kind = "cod" /\ req[1].http = 200 /\ OthersIdle({1}) )
     => Stock("p1") = IF initial_stock["p1"] > QuantityIn(1, "p1")
                      THEN initial_stock["p1"] - QuantityIn(1, "p1") ELSE 0
  /\ \A r \in Slots :
       (req[r].kind = "cod" /\ req[r].pc \in {"decrement_read", "decrement_write"})
       => /\ req[r].order \in DOMAIN orders
          /\ orders[req[r].order].payment_status = "pending"

\* One request for two units of p1, of which one was in stock, placed order
\* o1 as a pending cash-on-delivery order and took the last unit.
C26_Witness ==
  /\ Done(1) /\ req[1].kind = "cod" /\ req[1].http = 200 /\ OthersIdle({1})
  /\ req[1].total_amount = 1 /\ req[1].cart[1].quantity = 2
  /\ initial_stock["p1"] = 1 /\ Stock("p1") = 0 /\ ~products["p1"].in_stock
  /\ req[1].order = "o1" /\ orders["o1"].payment_method = "cod"
  /\ orders["o1"].payment_status = "pending"
  /\ req[1].updatedProducts = <<"p1">>

\* The status requests on order o whose restoreStock run added p back.
RestoreRuns(o, p) ==
  { r \in Slots : /\ req[r].kind = "status" /\ req[r].order = o
                  /\ p \in Range(req[r].updatedProducts) }

\* C28: whatever status requests are made on order o1, with previousStatus
\* missing, stale or right, the quantity of its item is added back to stock
\* by at most one of them, so that the stock never exceeds its first value
\* by more than that quantity.
C28_RestoredAtMostOnce ==
  /\ Cardinality(RestoreRuns("o1", "p1")) <= 1
  /\ Stock("p1") <= initial_stock["p1"] + Quantity("o1")

\* C29: a request that cancels order o1 while it is still an unpaid gateway
\* order (payment_status pending, no confirmation has run, so nothing was
\* taken from stock) leaves the stock of every product as it was.
C29_CancelUnpaidKeepsStock ==
  ( /\ Done(1) /\ req[1].kind = "status" /\ req[1].order = "o1"
    /\ req[1].newStatus = "cancelled"
    /\ orders["o1"].payment_status = "pending"
    /\ orders["o1"].payment_method = "razorpay"
    /\ OthersIdle({1}) )
  => /\ Stock("p1") = initial_stock["p1"]
     /\ req[1].updatedProducts = <<>>

====
